---- MODULE Spec2Model ----
(***************************************************************************)
(* Model of the API-access core of bc4: the token-bucket RateLimiter       *)
(* (internal/api/ratelimiter.go) and the paginated fetcher                 *)
(* (internal/api/pagination.go) with the HTTP request core of the client.  *)
(*                                                                         *)
(* Time is an integer clock `now` counted in ticks since the limiter was   *)
(* created (NewRateLimiter sets lastRefill = time.Now(), tick 0).          *)
(***************************************************************************)
EXTENDS Integers, Sequences, FiniteSets, TLC

(***************************************************************************)
(* Bounds of the model.                                                    *)
(***************************************************************************)
NumProcs == 2
MaxTime == 5
MaxCalls == 4
MaxTokensBound == 2
NumWaiters == 3
NumFetchers == 1
MaxPageCalls == 2
MaxRequests == 3
MaxPagesBound == 2
MaxRecs == 3
MaxStamp == 2
MaxPerson == 2
MaxLimit == 2
NumTypes == 2
MaxServed == 4
MaxLinks == 2
MaxTags == 2
PreCalls == 2
LivePages == 2
MaxPaged == 1

Procs == 1..NumProcs

\* the goroutines of the concurrent-waiters run
Waiters == 1..NumWaiters

\* refillDuration arguments of NewRateLimiter tried by the model for a pool of m
\* tokens, in ticks; at least m ticks, as a shorter window makes refillRate 0
RefillDurations(m) == {2 * m, 3 * m + 1}

VARIABLES
    tokens,      \* RateLimiter.tokens
    maxTokens,   \* RateLimiter.maxTokens
    refillRate,  \* RateLimiter.refillRate (ticks per token)
    lastRefill,  \* RateLimiter.lastRefill
    mu,          \* RateLimiter.mu: 0 = unlocked, else the proc holding it
    now,         \* the clock read by time.Now()
    op,          \* op[p]: the call proc p is executing, "idle" when none
    pc,          \* pc[p]: position of proc p inside its call
    wake,        \* wake[p]: earliest time the time.Sleep of p may return
    loc,         \* loc[p]: locals and the return value of the call of p
    calls,       \* number of calls started so far
    granted,     \* number of tokens handed out so far (history)
    hasReset,    \* whether Reset has run (history)
    ctxDone,     \* whether the context of the paginated fetches is cancelled
    ga,          \* ga[p]: the PaginatedRequest and the locals of GetAll of p
    wire,        \* the HTTP requests in flight
    lr,          \* the ListRecordings call: its options, errgroup and return
    fn           \* the last call of sortRecordings or filterRecordings

\* ActivityListOptions without a filter: Since 0 stands for a nil Since
\* (timestamps are positive), PersonID 0 and Limit 0 for unset
NoOpts == [Since |-> 0, PersonID |-> 0, Limit |-> 0]

\* no error
NoErr == [type |-> 0, cause |-> "nil"]

\* lr before ListRecordings is called: opts (Since 0 stands for nil), the
\* error of the errgroup, results[i], the error each goroutine returned
\* (history), the goroutines that have returned, and what the call returned
NoLr == [pc |-> "idle",
         opts |-> NoOpts,
         err |-> NoErr, results |-> <<>>, errs |-> <<>>, finished |-> {},
         ret |-> <<>>, retErr |-> NoErr]

\* fn before any call of sortRecordings or filterRecordings
NoFn == [op |-> "none", in |-> <<>>, opts |-> NoOpts, out |-> <<>>]

rlvars == <<tokens, maxTokens, refillRate, lastRefill, mu>>
lrvars == <<lr, fn>>
pgvars == <<ctxDone, ga, wire, lrvars>>
vars == <<tokens, maxTokens, refillRate, lastRefill, mu, now, op, pc, wake,
          loc, calls, granted, hasReset, ctxDone, ga, wire, lr, fn>>

\* loc[p] at the start of a call; acquired and reqs count the tokens the call
\* has taken and the HTTP requests it has issued (history)
NoLoc == [slept |-> FALSE, preTokens |-> 0, preLast |-> 0, midTokens |-> 0,
          ret |-> FALSE, acquired |-> 0, reqs |-> 0]

\* mutant: min that returns its first argument
minFirst(a, b) == a

\* min returns the minimum of two integers
min(a, b) == IF a < b THEN a ELSE b

\* mutant: refill that stamps lastRefill with the current time on every call
refillAlwaysStamp(tok, last, t) ==
    LET tokensToAdd == (t - last) \div refillRate IN
    [tokens |-> IF tokensToAdd > 0 THEN min(tok + tokensToAdd, maxTokens) ELSE tok,
     lastRefill |-> t]

\* mutant: refill that stamps lastRefill with the current time when it adds
\* tokens
refillToNow(tok, last, t) ==
    LET tokensToAdd == (t - last) \div refillRate IN
    IF tokensToAdd > 0
    THEN [tokens |-> min(tok + tokensToAdd, maxTokens), lastRefill |-> t]
    ELSE [tokens |-> tok, lastRefill |-> last]

\* mutant: refill that rounds the elapsed intervals up instead of down
refillCeil(tok, last, t) ==
    LET tokensToAdd == ((t - last) + refillRate - 1) \div refillRate IN
    IF tokensToAdd > 0
    THEN [tokens |-> min(tok + tokensToAdd, maxTokens),
          lastRefill |-> last + tokensToAdd * refillRate]
    ELSE [tokens |-> tok, lastRefill |-> last]

\* RateLimiter.refill: the tokens and lastRefill it leaves, read at time t
refill(tok, last, t) ==
    LET elapsed == t - last
        tokensToAdd == elapsed \div refillRate IN
    IF tokensToAdd > 0
    THEN [tokens |-> min(tok + tokensToAdd, maxTokens),
          lastRefill |-> last + tokensToAdd * refillRate]
    ELSE [tokens |-> tok, lastRefill |-> last]

(***************************************************************************)
(* Strings are sequences of one-character strings.  The Link header parser *)
(* and the URL conversion of pagination.go are computed on them character  *)
(* by character, with 1-based indices (index i here is i-1 in the source). *)
(***************************************************************************)
Quote == "\""
Backslash == "\\"
\* the backquote character
Backtick == "backtick"
Blanks == {" ", "\t"}
Digits == {"0", "1", "2", "3", "4", "5", "6", "7", "8", "9"}
Uppers == {"A", "B", "C", "D", "E", "F", "G", "H", "I", "J", "K", "L", "M",
           "N", "O", "P", "Q", "R", "S", "T", "U", "V", "W", "X", "Y", "Z"}
Lowers == {"a", "b", "c", "d", "e", "f", "g", "h", "i", "j", "k", "l", "m",
           "n", "o", "p", "q", "r", "s", "t", "u", "v", "w", "x", "y", "z"}

\* the class \s of package regexp: [\t\n\f\r ]
RegexpSpaces == {" ", "\t", "\n", "\r", "\f"}

\* unicode.IsSpace, the ASCII spaces: \t, \n, \v (the byte 0x0B), \f, \r and
\* the space
AsciiSpaces == {" ", "\t", "\n", "x0B", "\f", "\r"}

\* unicode.IsSpace, the spaces of two bytes in UTF-8: U+0085 and U+00A0
UnicodeSpaces2 == {<<"xC2", "x85">>, <<"xC2", "xA0">>}

\* unicode.IsSpace, the spaces of three bytes in UTF-8: U+1680, U+2000 to
\* U+200A, U+2028, U+2029, U+202F, U+205F and U+3000
UnicodeSpaces3 ==
    {<<"xE1", "x9A", "x80">>, <<"xE2", "x80", "xA8">>, <<"xE2", "x80", "xA9">>,
     <<"xE2", "x80", "xAF">>, <<"xE2", "x81", "x9F">>, <<"xE3", "x80", "x80">>}
    \cup {<<"xE2", "x80", c>> : c \in {"x80", "x81", "x82", "x83", "x84", "x85",
                                        "x86", "x87", "x88", "x89", "x8A"}}

\* the number of bytes of the space that starts at index i of s, 0 when no
\* space starts there
SpaceLenAt(s, i) ==
    IF i < 1 \/ i > Len(s) THEN 0
    ELSE IF s[i] \in AsciiSpaces THEN 1
    ELSE IF i + 1 <= Len(s) /\ SubSeq(s, i, i + 1) \in UnicodeSpaces2 THEN 2
    ELSE IF i + 2 <= Len(s) /\ SubSeq(s, i, i + 2) \in UnicodeSpaces3 THEN 3
    ELSE 0

\* the byte at index j of s belongs to a character for which unicode.IsSpace
\* holds
IsSpaceAt(s, j) == \E i \in (j - 2)..j : SpaceLenAt(s, i) > j - i

\* the indices from i on of the bytes of s that belong to a space, and of
\* those that do not
SpaceIndices(s, i) == {j \in i..Len(s) : IsSpaceAt(s, j)}
TextIndices(s, i) == {j \in i..Len(s) : ~IsSpaceAt(s, j)}

LowerTable ==
    [c \in Uppers |->
        CASE c = "A" -> "a" [] c = "B" -> "b" [] c = "C" -> "c" [] c = "D" -> "d"
          [] c = "E" -> "e" [] c = "F" -> "f" [] c = "G" -> "g" [] c = "H" -> "h"
          [] c = "I" -> "i" [] c = "J" -> "j" [] c = "K" -> "k" [] c = "L" -> "l"
          [] c = "M" -> "m" [] c = "N" -> "n" [] c = "O" -> "o" [] c = "P" -> "p"
          [] c = "Q" -> "q" [] c = "R" -> "r" [] c = "S" -> "s" [] c = "T" -> "t"
          [] c = "U" -> "u" [] c = "V" -> "v" [] c = "W" -> "w" [] c = "X" -> "x"
          [] c = "Y" -> "y" [] c = "Z" -> "z"]

ToLower(c) == IF c \in Uppers THEN LowerTable[c] ELSE c

MinOf(S) == CHOOSE x \in S : \A y \in S : x <= y
MaxOf(S) == CHOOSE x \in S : \A y \in S : x >= y

\* for i < len(s) && s[i] in S { i++ }: the index the loop ends at
ScanWhile(s, i, S) ==
    LET stops == {j \in i..Len(s) : s[j] \notin S} IN
    IF stops = {} THEN MaxOf({i, Len(s) + 1}) ELSE MinOf(stops)

\* for i < len(s) && s[i] not in S { i++ }: the index the loop ends at
ScanUntil(s, i, S) ==
    LET stops == {j \in i..Len(s) : s[j] \in S} IN
    IF stops = {} THEN MaxOf({i, Len(s) + 1}) ELSE MinOf(stops)

\* strings.HasPrefix
HasPrefix(s, pre) == Len(s) >= Len(pre) /\ SubSeq(s, 1, Len(pre)) = pre

\* strings.Index: the first index at which sub occurs in s, 0 when it does not
IndexOf(s, sub) ==
    LET hits == {j \in 1..(Len(s) - Len(sub) + 1) :
                    SubSeq(s, j, j + Len(sub) - 1) = sub} IN
    IF hits = {} THEN 0 ELSE MinOf(hits)

\* strings.LastIndex
LastIndexOf(s, sub) ==
    LET hits == {j \in 1..(Len(s) - Len(sub) + 1) :
                    SubSeq(s, j, j + Len(sub) - 1) = sub} IN
    IF hits = {} THEN 0 ELSE MaxOf(hits)

\* strings.Contains
Contains(s, sub) == Len(sub) = 0 \/ IndexOf(s, sub) > 0

\* strings.Trim(s, cutset) for a one-character cutset
Trim(s, c) ==
    LET keep == {j \in 1..Len(s) : s[j] # c} IN
    IF keep = {} THEN <<>> ELSE SubSeq(s, MinOf(keep), MaxOf(keep))

\* strings.Fields: the maximal runs of non-space characters, in order
RECURSIVE FieldsFrom(_, _)
FieldsFrom(s, i) ==
    IF TextIndices(s, i) = {} THEN <<>>
    ELSE LET b == MinOf(TextIndices(s, i)) IN
         IF SpaceIndices(s, b) = {} THEN <<SubSeq(s, b, Len(s))>>
         ELSE <<SubSeq(s, b, MinOf(SpaceIndices(s, b)) - 1)>>
              \o FieldsFrom(s, MinOf(SpaceIndices(s, b)))

Fields(s) == FieldsFrom(s, 1)

\* strings.EqualFold on the letters of the model
EqualFold(a, b) ==
    /\ Len(a) = Len(b)
    /\ \A j \in 1..Len(a) : ToLower(a[j]) = ToLower(b[j])

\* Params[name] = value on the map of a LinkEntry
SetParam(params, name, value) ==
    [x \in DOMAIN params \cup {name} |-> IF x = name THEN value ELSE params[x]]

\* the key "rel" of LinkEntry.Params
RelKey == <<"r", "e", "l">>
NextRel == <<"n", "e", "x", "t">>

\* mutant: a relation test that compares the whole rel value, case-sensitively
hasRelationExact(le, rel) ==
    /\ RelKey \in DOMAIN le.Params
    /\ Trim(le.Params[RelKey], Quote) = rel

\* LinkEntry.hasRelation
hasRelation(le, rel) ==
    /\ RelKey \in DOMAIN le.Params
    /\ LET relValue == Trim(le.Params[RelKey], Quote)
           relations == Fields(relValue) IN
       \E j \in 1..Len(relations) : EqualFold(relations[j], rel)

\* mutant: a quoted value that ends at the first quote, escaped or not
QuotedValueNoEscape(h, i) ==
    LET valueStart == i + 1
        ends == {j \in valueStart..Len(h) : h[j] = Quote} IN
    IF ends = {} THEN [value |-> <<>>, i |-> MaxOf({valueStart, Len(h) + 1})]
    ELSE [value |-> SubSeq(h, valueStart, MinOf(ends) - 1), i |-> MinOf(ends) + 1]

\* parseLinkHeaderEntries, a quoted parameter value: i is the index of the
\* opening quote; the value and the index after the closing quote, or the
\* empty value and the end of the header when the quote is never closed
QuotedValue(h, i) ==
    LET valueStart == i + 1
        ends == {j \in valueStart..Len(h) :
                    h[j] = Quote /\ (j = 1 \/ h[j - 1] # Backslash)} IN
    IF ends = {} THEN [value |-> <<>>, i |-> MaxOf({valueStart, Len(h) + 1})]
    ELSE [value |-> SubSeq(h, valueStart, MinOf(ends) - 1), i |-> MinOf(ends) + 1]

\* parseLinkHeaderEntries, the value after a parameter name ending at index i
ParamValue(h, i) ==
    LET i1 == ScanWhile(h, i, Blanks) IN
    IF i1 <= Len(h) /\ h[i1] = "="
    THEN LET i2 == ScanWhile(h, i1 + 1, Blanks) IN
         IF i2 > Len(h) THEN [value |-> <<>>, i |-> i2]
         ELSE IF h[i2] = Quote THEN QuotedValue(h, i2)
         ELSE LET i3 == ScanUntil(h, i2, {" ", "\t", ";", ","}) IN
              [value |-> SubSeq(h, i2, i3 - 1), i |-> i3]
    ELSE [value |-> <<>>, i |-> i1]

\* parseLinkHeaderEntries, the loop over the parameters of one entry from
\* index i: the index it leaves, the parameters, and whether the loop goes
\* round without advancing (an iteration that starts at a '=' reads an empty
\* name, stores nothing and leaves i where it was)
RECURSIVE ParseParams(_, _, _)
ParseParams(h, i, params) ==
    LET i1 == ScanWhile(h, i, {" ", "\t", ";"}) IN
    IF i1 > Len(h) THEN [i |-> i1, params |-> params, hang |-> FALSE]
    ELSE IF h[i1] = "," THEN [i |-> i1 + 1, params |-> params, hang |-> FALSE]
    ELSE LET paramStart == i1
             i2 == ScanUntil(h, i1, {"=", ",", " ", "\t"}) IN
         IF i2 > paramStart
         THEN LET paramName == SubSeq(h, paramStart, i2 - 1)
                  v == ParamValue(h, i2) IN
              ParseParams(h, v.i, SetParam(params, paramName, v.value))
         ELSE [i |-> i2, params |-> params, hang |-> TRUE]

\* parseLinkHeaderEntries, the outer loop from index i
RECURSIVE ParseEntries(_, _, _)
ParseEntries(h, i, entries) ==
    LET i1 == ScanWhile(h, i, Blanks) IN
    IF i1 > Len(h) THEN [entries |-> entries, hang |-> FALSE]
    ELSE IF h[i1] = "<"
    THEN LET urlStart == i1 + 1
             i2 == ScanUntil(h, urlStart, {">"})
             URL == IF i2 <= Len(h) THEN SubSeq(h, urlStart, i2 - 1) ELSE <<>>
             i3 == IF i2 <= Len(h) THEN i2 + 1 ELSE i2
             ps == ParseParams(h, i3, <<>>) IN
         IF ps.hang THEN [entries |-> entries, hang |-> TRUE]
         ELSE ParseEntries(h, ps.i,
                  IF URL # <<>>
                  THEN Append(entries, [URL |-> URL, Params |-> ps.params])
                  ELSE entries)
    ELSE ParseEntries(h, i1 + 1, entries)

\* parseLinkHeaderEntries: the entries, and hang when the parser never returns
parseLinkHeaderEntries(linkHeader) == ParseEntries(linkHeader, 1, <<>>)

\* parseNextLinkURL, the loop over the parsed links
FirstNext(parsed, hits) ==
    IF parsed.hang THEN [url |-> <<>>, hang |-> TRUE]
    ELSE IF hits = {} THEN [url |-> <<>>, hang |-> FALSE]
    ELSE [url |-> parsed.entries[MinOf(hits)].URL, hang |-> FALSE]

NextOf(parsed) ==
    FirstNext(parsed, {j \in 1..Len(parsed.entries) :
                          hasRelation(parsed.entries[j], NextRel)})

\* parseNextLinkURL: the URL of the first entry with the relation next; hang
\* when parseLinkHeaderEntries never returns
parseNextLinkURL(linkHeader) ==
    IF linkHeader = <<>> THEN [url |-> <<>>, hang |-> FALSE]
    ELSE NextOf(parseLinkHeaderEntries(linkHeader))

\* strings.Cut: the text before and after the first sep; all of s and the
\* empty string when sep does not occur
Cut(s, sep) ==
    IF IndexOf(s, sep) = 0 THEN [before |-> s, after |-> <<>>]
    ELSE [before |-> SubSeq(s, 1, IndexOf(s, sep) - 1),
          after |-> SubSeq(s, IndexOf(s, sep) + Len(sep), Len(s))]

SchemeChars == Uppers \cup Lowers \cup Digits \cup {"+", "-", "."}

\* net/url getScheme: the index of the ':' that ends a leading scheme, 0 when
\* the string has no scheme, -1 when it starts with ':' (an error)
SchemeEndAt(u, stop) ==
    IF stop > Len(u) \/ u[stop] # ":" THEN 0
    ELSE IF stop = 1 THEN -1
    ELSE IF u[1] \notin Uppers \cup Lowers THEN 0
    ELSE stop

SchemeEnd(u) ==
    SchemeEndAt(u, ScanUntil(u, 1, {u[j] : j \in 1..Len(u)} \ SchemeChars))

ParseFailed == [ok |-> FALSE, Scheme |-> <<>>, Host |-> <<>>, Path |-> <<>>,
                RawQuery |-> <<>>]

\* the bytes 0x20 to 0x7E in their order
AsciiPrintable ==
    <<" ", "!", Quote, "#", "$", "%", "&", "'", "(", ")", "*", "+", ",", "-",
      ".", "/", "0", "1", "2", "3", "4", "5", "6", "7", "8", "9", ":", ";",
      "<", "=", ">", "?", "@", "A", "B", "C", "D", "E", "F", "G", "H", "I",
      "J", "K", "L", "M", "N", "O", "P", "Q", "R", "S", "T", "U", "V", "W",
      "X", "Y", "Z", "[", Backslash, "]", "^", "_", Backtick, "a", "b", "c",
      "d", "e", "f", "g", "h", "i", "j", "k", "l", "m", "n", "o", "p", "q",
      "r", "s", "t", "u", "v", "w", "x", "y", "z", "{", "|", "}", "~">>

HexChars == <<"0", "1", "2", "3", "4", "5", "6", "7", "8", "9", "A", "B", "C",
              "D", "E", "F">>

\* net/url ishex
ishex(c) == c \in Digits \cup {"a", "b", "c", "d", "e", "f",
                               "A", "B", "C", "D", "E", "F"}

\* net/url unhex
unhex(c) ==
    CHOOSE v \in 0..15 : HexChars[v + 1] = c \/ ToLower(HexChars[v + 1]) = c

\* a byte that is not printable ASCII, written x and its two hex digits
OtherByte(v) == "x" \o HexChars[(v \div 16) + 1] \o HexChars[(v % 16) + 1]

\* the character of the byte v
ByteChar(v) ==
    IF v \in 32..126 THEN AsciiPrintable[v - 31]
    ELSE IF v = 9 THEN "\t"
    ELSE IF v = 10 THEN "\n"
    ELSE IF v = 12 THEN "\f"
    ELSE IF v = 13 THEN "\r"
    ELSE OtherByte(v)

\* the bytes from 0x80 on
HighBytes == {OtherByte(v) : v \in 128..255}

\* net/url stringContainsCTLByte: a byte below 0x20, or 0x7F
CTLBytes ==
    {"\t", "\n", "\f", "\r"} \cup {OtherByte(v) : v \in (0..31) \cup {127}}

stringContainsCTLByte(s) == \E j \in 1..Len(s) : s[j] \in CTLBytes

\* net/url shouldEscape(c, encodeHost), negated: the ASCII bytes a host may
\* hold unescaped
HostChars ==
    Uppers \cup Lowers \cup Digits
    \cup {"!", "$", "&", "'", "(", ")", "*", "+", ",", ";", "=", ":", "[",
          "]", "<", ">", Quote, "-", "_", ".", "~"}

\* the byte a well-formed escape at index i of s stands for
EscapedByte(s, i) == 16 * unhex(s[i + 1]) + unhex(s[i + 2])

\* net/url unescape, the checks on the '%' at index i: two hex digits
\* follow; in a host the byte is 0x80 or more, or the escape is %25; in a
\* zone the byte is an ASCII byte a host may hold, a space, or the escape is
\* %25
EscapeOK(s, i, mode) ==
    /\ i + 2 <= Len(s)
    /\ ishex(s[i + 1])
    /\ ishex(s[i + 2])
    /\ mode = "host" =>
          \/ unhex(s[i + 1]) >= 8
          \/ SubSeq(s, i, i + 2) = <<"%", "2", "5">>
    /\ mode = "zone" =>
          \/ SubSeq(s, i, i + 2) = <<"%", "2", "5">>
          \/ EscapedByte(s, i) = 32
          \/ ByteChar(EscapedByte(s, i)) \in HostChars

\* net/url unescape, whether it returns without an error: every escape is
\* well-formed, and in a host or zone every other ASCII byte is one a host
\* may hold
UnescapeOK(s, mode) ==
    \A i \in 1..Len(s) :
        IF s[i] = "%" THEN EscapeOK(s, i, mode)
        ELSE mode \in {"host", "zone"} => s[i] \in HostChars \cup HighBytes

\* net/url unescape, the text from index i on with its escapes replaced by
\* the bytes they stand for
RECURSIVE UnescapeFrom(_, _)
UnescapeFrom(s, i) ==
    IF ScanUntil(s, i, {"%"}) > Len(s) THEN SubSeq(s, i, Len(s))
    ELSE SubSeq(s, i, ScanUntil(s, i, {"%"}) - 1)
         \o <<ByteChar(EscapedByte(s, ScanUntil(s, i, {"%"})))>>
         \o UnescapeFrom(s, ScanUntil(s, i, {"%"}) + 3)

\* net/url unescape of a text that UnescapeOK accepts
Unescape(s) == UnescapeFrom(s, 1)

\* net/url validOptionalPort: empty, or a ':' followed by digits only
validOptionalPort(port) ==
    \/ port = <<>>
    \/ /\ port[1] = ":"
       /\ \A j \in 2..Len(port) : port[j] \in Digits

\* net/url validUserinfo
validUserinfo(s) ==
    \A j \in 1..Len(s) :
        s[j] \in Uppers \cup Lowers \cup Digits
                 \cup {"-", ".", "_", ":", "~", "!", "$", "&", "'", "(", ")",
                       "*", "+", ",", ";", "=", "%", "@"}

\* net/url parseHost on an IP literal with a zone: closing is the index of
\* the last ']' and zone the index of the first "%25" before it
parseHostZone(host, closing, zone) ==
    IF /\ UnescapeOK(SubSeq(host, 1, zone - 1), "host")
       /\ UnescapeOK(SubSeq(host, zone, closing - 1), "zone")
       /\ UnescapeOK(SubSeq(host, closing, Len(host)), "host")
    THEN [ok |-> TRUE, host |-> Unescape(host)]
    ELSE [ok |-> FALSE, host |-> <<>>]

\* net/url parseHost from the checks of the brackets and the port on
parseHostPlain(host) ==
    IF UnescapeOK(host, "host")
    THEN [ok |-> TRUE, host |-> Unescape(host)]
    ELSE [ok |-> FALSE, host |-> <<>>]

\* net/url parseHost on a host that starts with '[': closing is the index of
\* the last ']', 0 when there is none
parseHostLiteral(host, closing) ==
    IF closing = 0 THEN [ok |-> FALSE, host |-> <<>>]
    ELSE IF ~validOptionalPort(SubSeq(host, closing + 1, Len(host)))
    THEN [ok |-> FALSE, host |-> <<>>]
    ELSE IF IndexOf(SubSeq(host, 1, closing - 1), <<"%", "2", "5">>) > 0
    THEN parseHostZone(host, closing,
                       IndexOf(SubSeq(host, 1, closing - 1), <<"%", "2", "5">>))
    ELSE parseHostPlain(host)

\* net/url parseHost: the host unescaped, or an error
parseHost(host) ==
    IF HasPrefix(host, <<"[">>)
    THEN parseHostLiteral(host, LastIndexOf(host, <<"]">>))
    ELSE IF /\ LastIndexOf(host, <<":">>) > 0
            /\ ~validOptionalPort(SubSeq(host, LastIndexOf(host, <<":">>),
                                         Len(host)))
    THEN [ok |-> FALSE, host |-> <<>>]
    ELSE parseHostPlain(host)

\* net/url URL.setPath at the end of parse: the path unescaped, or an error
urlSetPath(Scheme, Host, rest, RawQuery) ==
    IF UnescapeOK(rest, "path")
    THEN [ok |-> TRUE, Scheme |-> Scheme, Host |-> Host,
          Path |-> Unescape(rest), RawQuery |-> RawQuery]
    ELSE ParseFailed

\* net/url parse from parseHost on: Path is the text after the authority
urlParseHost(Scheme, Host, Path, RawQuery) ==
    IF parseHost(Host).ok
    THEN urlSetPath(Scheme, parseHost(Host).host, Path, RawQuery)
    ELSE ParseFailed

\* net/url parseAuthority: the host follows the last '@'; the userinfo
\* before it holds valid characters and well-formed escapes only
urlParseAuthority(Scheme, authority, Path, RawQuery) ==
    IF LastIndexOf(authority, <<"@">>) = 0
    THEN urlParseHost(Scheme, authority, Path, RawQuery)
    ELSE IF /\ validUserinfo(SubSeq(authority, 1,
                                    LastIndexOf(authority, <<"@">>) - 1))
            /\ UnescapeOK(SubSeq(authority, 1,
                                 LastIndexOf(authority, <<"@">>) - 1),
                          "userinfo")
    THEN urlParseHost(Scheme,
                      SubSeq(authority, LastIndexOf(authority, <<"@">>) + 1,
                             Len(authority)),
                      Path, RawQuery)
    ELSE ParseFailed

\* net/url parse, from the text after the scheme and before the query
urlParsePath(Scheme, rest, RawQuery) ==
    IF ~HasPrefix(rest, <<"/">>) /\ Scheme # <<>>
    THEN [ok |-> TRUE, Scheme |-> Scheme, Host |-> <<>>, Path |-> <<>>,
          RawQuery |-> RawQuery]
    ELSE IF /\ ~HasPrefix(rest, <<"/">>)
            /\ Contains(Cut(rest, <<"/">>).before, <<":">>)
    THEN ParseFailed
    ELSE IF HasPrefix(rest, <<"/", "/">>)
            /\ (Scheme # <<>> \/ ~HasPrefix(rest, <<"/", "/", "/">>))
    THEN urlParseAuthority(Scheme,
                           Cut(SubSeq(rest, 3, Len(rest)), <<"/">>).before,
                           SubSeq(rest, 2 + Len(Cut(SubSeq(rest, 3, Len(rest)),
                                                    <<"/">>).before) + 1,
                                  Len(rest)),
                           RawQuery)
    ELSE urlSetPath(Scheme, <<>>, rest, RawQuery)

urlParseQuery(Scheme, c) == urlParsePath(Scheme, c.before, c.after)

urlParseScheme(u, se) ==
    IF se = -1 THEN ParseFailed
    ELSE IF se = 0 THEN urlParseQuery(<<>>, Cut(u, <<"?">>))
    ELSE urlParseQuery([j \in 1..(se - 1) |-> ToLower(u[j])],
                       Cut(SubSeq(u, se + 1, Len(u)), <<"?">>))

\* net/url parse: a URL with a control character is rejected
urlParseNoFragment(u) ==
    IF stringContainsCTLByte(u) THEN ParseFailed
    ELSE urlParseScheme(u, SchemeEnd(u))

\* net/url Parse: the fragment is cut off, then scheme, query, authority and
\* path are split, checked and unescaped as url.Parse does; ok is FALSE
\* where it fails (also on a fragment with a malformed escape)
urlParse(rawURL) ==
    IF UnescapeOK(Cut(rawURL, <<"#">>).after, "fragment")
    THEN urlParseNoFragment(Cut(rawURL, <<"#">>).before)
    ELSE ParseFailed

\* "basecampapi.com"
BasecampDomain == <<"b", "a", "s", "e", "c", "a", "m", "p", "a", "p", "i", ".",
                    "c", "o", "m">>

\* extractPathFromURL: relativePath += "?" + parsedURL.RawQuery
WithQuery(path, RawQuery) ==
    IF RawQuery # <<>> THEN path \o <<"?">> \o RawQuery ELSE path

\* extractPathFromURL on a URL of the API host: parts is the path without
\* its leading slash, cut at its first slash
AccountPath(parsedURL, firstPart, remainder) ==
    IF firstPart # <<>> /\ \A j \in 1..Len(firstPart) : firstPart[j] \in Digits
    THEN WithQuery(<<"/">> \o remainder, parsedURL.RawQuery)
    ELSE WithQuery(parsedURL.Path, parsedURL.RawQuery)

\* extractPathFromURL from the parsed URL on
PathOfParsed(parsedURL, trimmed) ==
    IF ~parsedURL.ok THEN <<>>
    ELSE IF parsedURL.Scheme = <<>> THEN <<>>
    ELSE IF /\ parsedURL.Host # <<>>
            /\ Contains(parsedURL.Host, BasecampDomain)
            /\ IndexOf(trimmed, <<"/">>) > 0
    THEN AccountPath(parsedURL, Cut(trimmed, <<"/">>).before,
                     Cut(trimmed, <<"/">>).after)
    ELSE WithQuery(parsedURL.Path, parsedURL.RawQuery)

\* strings.TrimPrefix(path, "/")
TrimSlash(path) == IF HasPrefix(path, <<"/">>) THEN Tail(path) ELSE path

PathOfURL(parsedURL) == PathOfParsed(parsedURL, TrimSlash(parsedURL.Path))

\* mutant: extractPathFromURL that keeps the account ID in the path
extractPathFromURLKeepAccount(absoluteURL) ==
    IF HasPrefix(absoluteURL, <<"/">>) THEN absoluteURL
    ELSE WithQuery(urlParse(absoluteURL).Path, urlParse(absoluteURL).RawQuery)

\* extractPathFromURL
extractPathFromURL(absoluteURL) ==
    IF HasPrefix(absoluteURL, <<"/">>) THEN absoluteURL
    ELSE PathOfURL(urlParse(absoluteURL))

\* mutant: a mutex that never excludes anybody
MutexFreeAlways == TRUE

\* sync.Mutex: Lock() returns only while nobody holds the mutex
MutexFree == mu = 0

\* NewRateLimiter(maxTokens, refillDuration)
NewRateLimiter(m, refillDuration) ==
    /\ maxTokens = m
    /\ tokens = m
    /\ refillRate = refillDuration \div m
    /\ lastRefill = 0

Init ==
    /\ \E m \in 1..MaxTokensBound : \E d \in RefillDurations(m) : NewRateLimiter(m, d)
    /\ mu = 0
    /\ now = 0
    /\ op = [p \in Procs |-> "idle"]
    /\ pc = [p \in Procs |-> "idle"]
    /\ wake = [p \in Procs |-> 0]
    /\ loc = [p \in Procs |-> NoLoc]
    /\ calls = 0
    /\ granted = 0
    /\ hasReset = FALSE
    /\ ctxDone = FALSE
    /\ ga = <<>>
    /\ wire = {}
    /\ lr = NoLr
    /\ fn = NoFn

\* a proc begins a call of the limiter
Start(p, o, first) ==
    /\ op[p] = "idle"
    /\ calls < MaxCalls
    /\ op' = [op EXCEPT ![p] = o]
    /\ pc' = [pc EXCEPT ![p] = first]
    /\ loc' = [loc EXCEPT ![p] = NoLoc]
    /\ calls' = calls + 1
    /\ UNCHANGED <<pgvars, rlvars, now, wake, granted, hasReset>>

StartWait(p) == Start(p, "Wait", "w_lock")
StartTryAcquire(p) == Start(p, "TryAcquire", "t_lock")
StartReset(p) == Start(p, "Reset", "r_lock")

\* rl.mu.Lock() at the head of Wait, TryAcquire and Reset, and after the sleep
Lock(p, from, to) ==
    /\ pc[p] = from
    /\ MutexFree
    /\ mu' = p
    /\ pc' = [pc EXCEPT ![p] = to]
    /\ UNCHANGED <<pgvars, tokens, maxTokens, refillRate, lastRefill, now, op, wake,
                   loc, calls, granted, hasReset>>

WaitLock(p) == Lock(p, "w_lock", "w_refill")

\* Wait: rl.refill(); if rl.tokens > 0
WaitRefill(p) ==
    /\ pc[p] = "w_refill"
    /\ LET r == refill(tokens, lastRefill, now) IN
        /\ tokens' = r.tokens
        /\ lastRefill' = r.lastRefill
        /\ pc' = [pc EXCEPT ![p] = IF r.tokens > 0 THEN "w_dec" ELSE "w_calc"]
    /\ UNCHANGED <<pgvars, maxTokens, refillRate, mu, now, op, wake, loc, calls,
                   granted, hasReset>>

\* Wait: rl.tokens--; return
WaitDec(p) ==
    /\ pc[p] = "w_dec"
    /\ tokens' = tokens - 1
    /\ granted' = granted + 1
    /\ loc' = [loc EXCEPT ![p].acquired = @ + 1]
    /\ pc' = [pc EXCEPT ![p] = "w_ret"]
    /\ UNCHANGED <<pgvars, maxTokens, refillRate, lastRefill, mu, now, op, wake,
                   calls, hasReset>>

\* mutant: Wait that goes to sleep without releasing the mutex
WaitCalcHoldingLock(p) ==
    /\ pc[p] = "w_calc"
    /\ LET w == refillRate - (now - lastRefill)
           waitTime == IF w <= 0 THEN refillRate ELSE w IN
        wake' = [wake EXCEPT ![p] = now + waitTime]
    /\ loc' = [loc EXCEPT ![p].slept = TRUE]
    /\ pc' = [pc EXCEPT ![p] = "w_sleep"]
    /\ UNCHANGED <<pgvars, rlvars, now, op, calls, granted, hasReset>>

\* Wait: waitTime computed from a fresh clock read, then rl.mu.Unlock() and
\* time.Sleep(waitTime)
WaitCalc(p) ==
    /\ pc[p] = "w_calc"
    /\ LET w == refillRate - (now - lastRefill)
           waitTime == IF w <= 0 THEN refillRate ELSE w IN
        wake' = [wake EXCEPT ![p] = now + waitTime]
    /\ mu' = IF mu = p THEN 0 ELSE mu
    /\ loc' = [loc EXCEPT ![p].slept = TRUE]
    /\ pc' = [pc EXCEPT ![p] = "w_sleep"]
    /\ UNCHANGED <<pgvars, tokens, maxTokens, refillRate, lastRefill, now, op, calls,
                   granted, hasReset>>

\* mutant: a Wait that takes a token when its sleep ends, without locking
\* and checking again
WaitWakeAssumeToken(p) ==
    /\ pc[p] = "w_sleep"
    /\ now >= wake[p]
    /\ pc' = [pc EXCEPT ![p] = "w_dec"]
    /\ UNCHANGED <<pgvars, rlvars, now, op, wake, loc, calls, granted, hasReset>>

\* Wait: time.Sleep returns no earlier than waitTime after it began
WaitWake(p) ==
    /\ pc[p] = "w_sleep"
    /\ now >= wake[p]
    /\ pc' = [pc EXCEPT ![p] = "w_lock"]
    /\ UNCHANGED <<pgvars, rlvars, now, op, wake, loc, calls, granted, hasReset>>

\* where a proc goes on when its limiter call returns: GetAll and GetPage
\* issue their request, a direct caller is done
AfterReturn(p) ==
    CASE op[p] = "GetAll" -> "g_request"
      [] op[p] = "GetPage" -> "c_request"
      [] OTHER -> "idle"

\* the deferred rl.mu.Unlock() and the return of Wait, TryAcquire and Reset
Return(p, from) ==
    /\ pc[p] = from
    /\ mu' = IF mu = p THEN 0 ELSE mu
    /\ pc' = [pc EXCEPT ![p] = AfterReturn(p)]
    /\ op' = [op EXCEPT ![p] = IF AfterReturn(p) = "idle" THEN "idle" ELSE @]
    /\ UNCHANGED <<pgvars, tokens, maxTokens, refillRate, lastRefill, now, wake, loc,
                   calls, granted, hasReset>>

WaitReturn(p) == Return(p, "w_ret")

TryLock(p) == Lock(p, "t_lock", "t_refill")

\* TryAcquire: rl.refill(); if rl.tokens > 0 ... else return false
TryRefill(p) ==
    /\ pc[p] = "t_refill"
    /\ LET r == refill(tokens, lastRefill, now) IN
        /\ tokens' = r.tokens
        /\ lastRefill' = r.lastRefill
        /\ loc' = [loc EXCEPT ![p].preTokens = tokens,
                              ![p].preLast = lastRefill,
                              ![p].midTokens = r.tokens,
                              ![p].ret = FALSE]
        /\ pc' = [pc EXCEPT ![p] = IF r.tokens > 0 THEN "t_dec" ELSE "t_ret"]
    /\ UNCHANGED <<pgvars, maxTokens, refillRate, mu, now, op, wake, calls, granted,
                   hasReset>>

\* TryAcquire: rl.tokens--; return true
TryDec(p) ==
    /\ pc[p] = "t_dec"
    /\ tokens' = tokens - 1
    /\ granted' = granted + 1
    /\ loc' = [loc EXCEPT ![p].ret = TRUE]
    /\ pc' = [pc EXCEPT ![p] = "t_ret"]
    /\ UNCHANGED <<pgvars, maxTokens, refillRate, lastRefill, mu, now, op, wake, calls,
                   hasReset>>

TryReturn(p) == Return(p, "t_ret")

ResetLock(p) == Lock(p, "r_lock", "r_body")

\* mutant: Reset that restores the tokens and leaves the refill clock alone
ResetBodyKeepClock(p) ==
    /\ pc[p] = "r_body"
    /\ tokens' = maxTokens
    /\ hasReset' = TRUE
    /\ pc' = [pc EXCEPT ![p] = "r_ret"]
    /\ UNCHANGED <<pgvars, maxTokens, refillRate, lastRefill, mu, now, op, wake,
                   loc, calls, granted>>

\* Reset: rl.tokens = rl.maxTokens; rl.lastRefill = time.Now()
ResetBody(p) ==
    /\ pc[p] = "r_body"
    /\ tokens' = maxTokens
    /\ lastRefill' = now
    /\ hasReset' = TRUE
    /\ pc' = [pc EXCEPT ![p] = "r_ret"]
    /\ UNCHANGED <<pgvars, maxTokens, refillRate, mu, now, op, wake, loc, calls,
                   granted>>

ResetReturn(p) == Return(p, "r_ret")

\* the clock advances
Tick ==
    /\ now < MaxTime
    /\ now' = now + 1
    /\ UNCHANGED <<pgvars, rlvars, op, pc, wake, loc, calls, granted, hasReset>>

\* lastRefill one tick further in the past.  An elapsed time of maxTokens + 1
\* refill intervals or more is cut by one interval: refill fills the pool and
\* leaves the same remainder, and Wait computes the same waitTime.
ShiftLast(last) ==
    IF now - (last - 1) >= (maxTokens + 1) * refillRate
    THEN last - 1 + refillRate
    ELSE last - 1

\* time passes by one tick, at any moment and for ever.  The code reads time
\* stamps only through their differences (now.Sub(rl.lastRefill) in refill,
\* time.Since(rl.lastRefill) in Wait, the length of a sleep), so time is kept
\* relative to the present: a tick leaves now alone and moves lastRefill and
\* the wake-up times one tick into the past.
TickLive ==
    /\ lastRefill' = ShiftLast(lastRefill)
    /\ wake' = [p \in DOMAIN wake |-> IF wake[p] > now THEN wake[p] - 1 ELSE wake[p]]
    /\ UNCHANGED <<pgvars, tokens, maxTokens, refillRate, mu, now, op, pc, loc,
                   calls, granted, hasReset>>

WaitSteps(p) ==
    \/ WaitLock(p)
    \/ WaitRefill(p)
    \/ WaitDec(p)
    \/ WaitCalc(p)
    \/ WaitWake(p)
    \/ WaitReturn(p)

Next ==
    \/ \E p \in Procs : StartWait(p)
    \/ \E p \in Procs : StartTryAcquire(p)
    \/ \E p \in Procs : StartReset(p)
    \/ \E p \in Procs : WaitLock(p)
    \/ \E p \in Procs : WaitRefill(p)
    \/ \E p \in Procs : WaitDec(p)
    \/ \E p \in Procs : WaitCalc(p)
    \/ \E p \in Procs : WaitWake(p)
    \/ \E p \in Procs : WaitReturn(p)
    \/ \E p \in Procs : TryLock(p)
    \/ \E p \in Procs : TryRefill(p)
    \/ \E p \in Procs : TryDec(p)
    \/ \E p \in Procs : TryReturn(p)
    \/ \E p \in Procs : ResetLock(p)
    \/ \E p \in Procs : ResetBody(p)
    \/ \E p \in Procs : ResetReturn(p)
    \/ Tick

Spec == Init /\ [][Next]_vars

(***************************************************************************)
(* The run of TestRateLimiter_Reset, by proc 1: PreCalls calls of Wait or   *)
(* TryAcquire while time passes freely, then Reset, then maxTokens + 1      *)
(* calls of TryAcquire within less than one refill interval of the Reset.   *)
(* calls is the position in the run.                                        *)
(***************************************************************************)
\* proc 1 begins the next call of the run
ScriptCall(o, first) ==
    /\ op[1] = "idle"
    /\ op' = [op EXCEPT ![1] = o]
    /\ pc' = [pc EXCEPT ![1] = first]
    /\ loc' = [loc EXCEPT ![1] = NoLoc]
    /\ calls' = calls + 1
    /\ UNCHANGED <<pgvars, rlvars, now, wake, granted, hasReset>>

DrainWait == calls < PreCalls /\ ScriptCall("Wait", "w_lock")
DrainTryAcquire == calls < PreCalls /\ ScriptCall("TryAcquire", "t_lock")
ResetStart == calls = PreCalls /\ ScriptCall("Reset", "r_lock")
ProbeStart ==
    /\ calls > PreCalls
    /\ calls < PreCalls + 1 + maxTokens + 1
    /\ ScriptCall("TryAcquire", "t_lock")

\* time passes; after the Reset, less than one refill interval
ResetTick ==
    /\ hasReset => now + 1 - lastRefill < refillRate
    /\ Tick

ResetNext ==
    \/ DrainWait
    \/ DrainTryAcquire
    \/ ResetStart
    \/ ProbeStart
    \/ WaitLock(1)
    \/ WaitRefill(1)
    \/ WaitDec(1)
    \/ WaitCalc(1)
    \/ WaitWake(1)
    \/ WaitReturn(1)
    \/ TryLock(1)
    \/ TryRefill(1)
    \/ TryDec(1)
    \/ TryReturn(1)
    \/ ResetLock(1)
    \/ ResetBody(1)
    \/ ResetReturn(1)
    \/ ResetTick

ResetSpec == Init /\ [][ResetNext]_vars

(***************************************************************************)
(* The process-wide limiter: GetRateLimiter, called by NewPaginatedRequest. *)
(* Before the first call there is no limiter (maxTokens 0).  fn holds the   *)
(* package variables: done and m are the flag and the mutex of once (a      *)
(* sync.Once: Do loads done, and if it is unset locks m, loads done again,  *)
(* runs the function and stores done), global is globalRateLimiter, 0 for   *)
(* nil or else the number of the instance, and created counts the runs of   *)
(* NewRateLimiter.  loc[p].instance is the limiter the call of p returned.  *)
(* The clock counts milliseconds here.                                      *)
(***************************************************************************)
GlobalTokens == 50
GlobalWindow == 10000

NoOnce == [op |-> "GetRateLimiter", done |-> FALSE, m |-> 0, global |-> 0,
           created |-> 0]

OnceInit ==
    /\ tokens = 0
    /\ maxTokens = 0
    /\ refillRate = 0
    /\ lastRefill = 0
    /\ mu = 0
    /\ now = 0
    /\ op = [p \in Procs |-> "idle"]
    /\ pc = [p \in Procs |-> "idle"]
    /\ wake = [p \in Procs |-> 0]
    /\ loc = [p \in Procs |-> NoLoc]
    /\ calls = 0
    /\ granted = 0
    /\ hasReset = FALSE
    /\ ctxDone = FALSE
    /\ ga = <<>>
    /\ wire = {}
    /\ lr = NoLr
    /\ fn = NoOnce

\* NewPaginatedRequest(client) calls GetRateLimiter()
StartGetRateLimiter(p) == Start(p, "GetRateLimiter", "o_fast")

\* a step of proc p that changes its position and the package variables
OnceStep(p, from, to, f) ==
    /\ pc[p] = from
    /\ pc' = [pc EXCEPT ![p] = to]
    /\ fn' = f
    /\ UNCHANGED <<rlvars, now, op, wake, loc, calls, granted, hasReset,
                   ctxDone, ga, wire, lr>>

\* once.Do: if o.done.Load() == 0 { o.doSlow(f) }
OnceFast(p) ==
    OnceStep(p, "o_fast", IF fn.done THEN "o_read" ELSE "o_lock", fn)

\* doSlow: o.m.Lock()
OnceLock(p) ==
    /\ fn.m = 0
    /\ OnceStep(p, "o_lock", "o_slow", [fn EXCEPT !.m = p])

\* mutant: a Do that runs the function whether or not done is set
OnceSlowAlways(p) == OnceStep(p, "o_slow", "o_new", fn)

\* doSlow: if o.done.Load() == 0
OnceSlow(p) ==
    OnceStep(p, "o_slow", IF fn.done THEN "o_unlock" ELSE "o_new", fn)

\* the function passed to Do: globalRateLimiter = NewRateLimiter(50, 10 s)
OnceNew(p) ==
    /\ pc[p] = "o_new"
    /\ pc' = [pc EXCEPT ![p] = "o_store"]
    /\ maxTokens' = GlobalTokens
    /\ tokens' = GlobalTokens
    /\ refillRate' = GlobalWindow \div GlobalTokens
    /\ lastRefill' = now
    /\ fn' = [fn EXCEPT !.created = @ + 1, !.global = fn.created + 1]
    /\ UNCHANGED <<mu, now, op, wake, loc, calls, granted, hasReset, ctxDone,
                   ga, wire, lr>>

\* doSlow: the deferred o.done.Store(1)
OnceStore(p) == OnceStep(p, "o_store", "o_unlock", [fn EXCEPT !.done = TRUE])

\* doSlow: the deferred o.m.Unlock()
OnceUnlock(p) == OnceStep(p, "o_unlock", "o_read", [fn EXCEPT !.m = 0])

\* return globalRateLimiter
OnceReturn(p) ==
    /\ pc[p] = "o_read"
    /\ pc' = [pc EXCEPT ![p] = "idle"]
    /\ op' = [op EXCEPT ![p] = "idle"]
    /\ loc' = [loc EXCEPT ![p] = [instance |-> fn.global] @@ NoLoc]
    /\ UNCHANGED <<pgvars, rlvars, now, wake, calls, granted, hasReset>>

OnceNext ==
    \/ \E p \in Procs : StartGetRateLimiter(p)
    \/ \E p \in Procs : OnceFast(p)
    \/ \E p \in Procs : OnceLock(p)
    \/ \E p \in Procs : OnceSlow(p)
    \/ \E p \in Procs : OnceNew(p)
    \/ \E p \in Procs : OnceStore(p)
    \/ \E p \in Procs : OnceUnlock(p)
    \/ \E p \in Procs : OnceReturn(p)
    \/ Tick

OnceSpec == OnceInit /\ [][OnceNext]_vars

(***************************************************************************)
(* The paginated fetcher (PaginatedRequest.GetAll, GetPage) and the        *)
(* request core of the client (doRequestWithHeadersContext, Get, Post,     *)
(* Put, Delete).  The server is the environment: it answers a request in   *)
(* flight with any response of Responses, or the transport fails.          *)
(***************************************************************************)
Fetchers == 1..NumFetchers

\* the pages a 200 response may carry (item values stand for testItem.ID)
OkPages == {<<>>, <<1>>, <<1, 3>>}

\* the Link header values a 200 response may carry
NoLink == <<>>
NextLink == <<"<", "/", "2", ">", ";", " ", "r", "e", "l", "=", "\"", "n", "e", "x", "t", "\"">>
AbsNextLink == 
    <<"<", "h", "t", "t", "p", "s", ":", "/", "/", "3", ".", "b", "a", "s", "e", "c", "a", "m", "p", "a", "p", "i", ".", "c", "o", "m", "/", "9", "/", "2", ">", ";", " ", "r", "e", "l", "=", "\"", "n", "e", "x", "t", "\"">>
PrevLink == <<"<", "/", "2", ">", ";", " ", "r", "e", "l", "=", "\"", "p", "r", "e", "v", "\"">>
\* a next link whose path holds a malformed escape: </2%zz>; rel="next"
BadEscapeLink == <<"<", "/", "2", "%", "z", "z", ">", ";", " ", "r", "e", "l", "=", "\"", "n", "e", "x", "t", "\"">>
Headers == {NoLink, NextLink, AbsNextLink, PrevLink, BadEscapeLink}

\* the path a test passes to GetAll, "/1"
FirstPath == <<"/", "1">>

ErrorStatuses == {401, 404, 429, 500}

NoResp == [kind |-> "none", status |-> 0, decodes |-> FALSE, items |-> <<>>,
           link |-> <<>>]
NetError == [kind |-> "neterr", status |-> 0, decodes |-> FALSE, items |-> <<>>,
             link |-> <<>>]
\* http.NewRequestWithContext returned an error: no request, no response
CreateError == [kind |-> "createerr", status |-> 0, decodes |-> FALSE,
                items |-> <<>>, link |-> <<>>]
Responses ==
    [kind : {"http"}, status : {200}, decodes : {TRUE}, items : OkPages,
     link : Headers]
    \cup [kind : {"http"}, status : {200}, decodes : {FALSE}, items : {<<>>},
          link : {NoLink}]
    \cup [kind : {"http"}, status : ErrorStatuses, decodes : {FALSE},
          items : {<<>>}, link : {NoLink}]

\* the pageCheck callbacks of the model: none, the predicate of
\* TestGetAll_WithPageCheck_StopsEarly (continue while the last ID is below
\* CheckThreshold) and the callback of
\* TestGetAll_WithContext_CancellationStopsPagination (cancel, return true);
\* "since" is the callback of listRecordingsByType (continue while the last
\* recording of the page is not before the Since of the options)
CheckKinds == {"nil", "lastBelow", "cancelTrue"}
CheckThreshold == 3

\* mutant: a since callback that also stops at a last recording updated
\* exactly at the cutoff
pageCheckStopAtEqual(kind, page) ==
    CASE kind = "lastBelow" -> page[Len(page)] < CheckThreshold
      [] kind = "since" -> page # <<>> /\ page[Len(page)] > lr.opts.Since
      [] OTHER -> TRUE

\* the value pageCheck returns for a page
pageCheck(kind, page) ==
    CASE kind = "lastBelow" -> page[Len(page)] < CheckThreshold
      [] kind = "since" -> page # <<>> /\ page[Len(page)] >= lr.opts.Since
      [] OTHER -> TRUE

\* the fixed delay between two page fetches, in ticks (100ms)
PageDelay == 1

NoGa == [path |-> <<>>, pageCount |-> 0, totalFetched |-> 0, result |-> <<>>,
         maxPages |-> 0, check |-> "nil", resp |-> NoResp, err |-> "none",
         pages |-> <<>>, checks |-> <<>>, opened |-> 0, closed |-> 0,
         into |-> "nil"]

\* doRequestWithHeadersContext: the error it returns for a response, "ok" when
\* it returns the response
requestError(resp) ==
    IF resp.kind = "neterr" THEN "request failed"
    ELSE IF resp.kind = "createerr" THEN "failed to create request"
    ELSE IF resp.status >= 400
    THEN CASE resp.status = 401 -> "AuthenticationError"
           [] resp.status = 404 -> "NotFoundError"
           [] OTHER -> "APIError"
    ELSE "ok"

PageInit ==
    /\ \E m \in 1..MaxTokensBound : \E d \in RefillDurations(m) : NewRateLimiter(m, d)
    /\ mu = 0
    /\ now = 0
    /\ op = [p \in Fetchers |-> "idle"]
    /\ pc = [p \in Fetchers |-> "idle"]
    /\ wake = [p \in Fetchers |-> 0]
    /\ loc = [p \in Fetchers |-> NoLoc]
    /\ calls = 0
    /\ granted = 0
    /\ hasReset = FALSE
    /\ ctxDone = FALSE
    /\ ga = [p \in Fetchers |-> NoGa]
    /\ wire = {}
    /\ lr = NoLr
    /\ fn = NoFn

\* a proc begins a call of the client or of a PaginatedRequest
StartCall(p, o, first, g) ==
    /\ op[p] = "idle"
    /\ calls < MaxPageCalls
    /\ op' = [op EXCEPT ![p] = o]
    /\ pc' = [pc EXCEPT ![p] = first]
    /\ loc' = [loc EXCEPT ![p] = NoLoc]
    /\ ga' = [ga EXCEPT ![p] = g]
    /\ calls' = calls + 1
    /\ UNCHANGED <<rlvars, lrvars, now, wake, granted, hasReset, ctxDone, wire>>

\* NewPaginatedRequest(client).WithContext(ctx).WithMaxPages(k)
\*     .WithPageCheck(check).GetAll(path, &result)
\* GetAll up to its loop, with the result argument into: reflect.TypeOf of a
\* nil result is nil and its Kind() panics; a result that is not a pointer
\* to a slice is an error; with a pointer to a slice the loop is entered
StartGetAll(p, k, check, into) ==
    StartCall(p, "GetAll",
              CASE into = "nil" -> "panic"
                [] into = "value" -> "return"
                [] OTHER -> "g_loop",
              [NoGa EXCEPT !.path = FirstPath, !.maxPages = k, !.check = check,
                           !.into = into,
                           !.err = CASE into = "nil" -> "panic"
                                    [] into = "value" ->
                                           "result must be a pointer to a slice"
                                    [] OTHER -> "running"])

\* the result argument of GetAll: nil, a value that is not a pointer to a
\* slice, or a pointer to a slice
GetAllResults == {"nil", "value", "result"}

\* the result argument of Get, Post, Put and GetPage: nil, a pointer to decode
\* the body into, or a value json cannot decode into (not a pointer, or a
\* nil pointer)
ResultArgs == {"nil", "result", "value"}

\* the payload argument of Post and Put: nil, a value json.Marshal encodes,
\* or one it returns an error for
Payloads == {"nil", "ok", "unmarshalable"}

\* Client.Get, Post and Put with the result argument into, and Delete, which
\* has none; Post and Put marshal their payload first and return the error
\* of json.Marshal
StartDirect(p, method, payload, into) ==
    /\ method = "Delete" => into = "nil"
    /\ method \in {"Get", "Delete"} => payload = "nil"
    /\ IF payload = "unmarshalable"
       THEN StartCall(p, method, "return",
                      [NoGa EXCEPT !.path = FirstPath, !.into = into,
                                   !.err = "failed to marshal payload"])
       ELSE StartCall(p, method, "c_request",
                      [NoGa EXCEPT !.path = FirstPath, !.into = into,
                                   !.err = "running"])

\* PaginatedRequest.GetPage: pr.rateLimiter.Wait(), then client.Get with the
\* result argument into
StartGetPage(p, into) ==
    StartCall(p, "GetPage", "w_lock", [NoGa EXCEPT !.path = FirstPath,
                                                   !.err = "running",
                                                   !.into = into])

\* GetAll, Get, Post, Put, Delete and GetPage reach a return statement with
\* error e
Finish(p, g, e) ==
    /\ ga' = [ga EXCEPT ![p] = [g EXCEPT !.err = e]]
    /\ pc' = [pc EXCEPT ![p] = "return"]
    /\ UNCHANGED op

\* the call returns to its caller, which takes the error and the result
CallReturn(p) ==
    /\ pc[p] = "return"
    /\ pc' = [pc EXCEPT ![p] = "idle"]
    /\ op' = [op EXCEPT ![p] = "idle"]
    /\ ga' = [ga EXCEPT ![p] = NoGa]
    /\ loc' = [loc EXCEPT ![p] = NoLoc]
    /\ UNCHANGED <<rlvars, lrvars, now, wake, calls, granted, hasReset, ctxDone, wire>>

\* mutant: a GetAll loop that issues its request without waiting for a token
GaLoopNoWait(p) ==
    /\ pc[p] = "g_loop"
    /\ (ga[p].path # <<>> /\ ~ctxDone) => loc[p].reqs < MaxRequests
    /\ IF ga[p].path = <<>> THEN Finish(p, ga[p], "nil")
       ELSE IF ctxDone THEN Finish(p, ga[p], "context canceled")
       ELSE /\ pc' = [pc EXCEPT ![p] = "g_request"]
            /\ UNCHANGED ga
    /\ UNCHANGED <<rlvars, lrvars, now, op, wake, loc, calls, granted, hasReset,
                   ctxDone, wire>>

\* mutant: a GetAll loop that looks at the context only from the second
\* iteration on
GaLoopLateCtxCheck(p) ==
    /\ pc[p] = "g_loop"
    /\ (ga[p].path # <<>> /\ ~(ctxDone /\ ga[p].pageCount > 0)) =>
          loc[p].reqs < MaxRequests
    /\ IF ga[p].path = <<>> THEN Finish(p, ga[p], "nil")
       ELSE IF ctxDone /\ ga[p].pageCount > 0
       THEN Finish(p, ga[p], "context canceled")
       ELSE /\ pc' = [pc EXCEPT ![p] = "w_lock"]
            /\ UNCHANGED ga
    /\ UNCHANGED <<rlvars, lrvars, now, op, wake, loc, calls, granted, hasReset,
                   ctxDone, wire>>

\* mutant: a GetAll loop that does not look at the context before it waits
GaLoopNoCtxCheck(p) ==
    /\ pc[p] = "g_loop"
    /\ ga[p].path # <<>> => loc[p].reqs < MaxRequests
    /\ IF ga[p].path = <<>> THEN Finish(p, ga[p], "nil")
       ELSE /\ pc' = [pc EXCEPT ![p] = "w_lock"]
            /\ UNCHANGED ga
    /\ UNCHANGED <<rlvars, lrvars, now, op, wake, loc, calls, granted, hasReset,
                   ctxDone, wire>>

\* GetAll, the head of the loop: for currentPath != "", the ctx.Err() check,
\* then pr.rateLimiter.Wait()
GaLoop(p) ==
    /\ pc[p] = "g_loop"
    /\ (ga[p].path # <<>> /\ ~ctxDone) => loc[p].reqs < MaxRequests
    /\ IF ga[p].path = <<>> THEN Finish(p, ga[p], "nil")
       ELSE IF ctxDone THEN Finish(p, ga[p], "context canceled")
       ELSE /\ pc' = [pc EXCEPT ![p] = "w_lock"]
            /\ UNCHANGED ga
    /\ UNCHANGED <<rlvars, lrvars, now, op, wake, loc, calls, granted, hasReset,
                   ctxDone, wire>>

\* mutant: a request that is sent without blocking for its response
SendRequestAsync(p, from, to, withCtx) ==
    /\ pc[p] = from
    /\ loc[p].reqs < MaxRequests
    /\ wire' = wire \cup {[proc |-> p, n |-> loc[p].reqs + 1]}
    /\ loc' = [loc EXCEPT ![p].reqs = @ + 1]
    /\ UNCHANGED <<rlvars, lrvars, now, wake, calls, granted, hasReset, ctxDone, op,
                   pc, ga>>

\* c.getBaseURL(): baseURL and the account ID
BaseURL == <<"h", "t", "t", "p", "s", ":", "/", "/", "3", ".", "b", "a", "s",
             "e", "c", "a", "m", "p", "a", "p", "i", ".", "c", "o", "m", "/",
             "9">>

\* http.NewRequestWithContext(ctx, method, url, body) returns a request: the
\* URL written from the base URL and the path parses
URLParses(path) == urlParse(BaseURL \o path).ok

\* the paths GetAll requests here: the first one and those of the headers
RequestPaths ==
    {FirstPath}
    \cup {extractPathFromURL(parseNextLinkURL(h).url) : h \in Headers \ {NoLink}}

\* URLParses as a table over the paths requested here
URLParsesOf == [path \in RequestPaths |-> URLParses(path)]

RequestCreated(path) ==
    IF path \in RequestPaths THEN URLParsesOf[path] ELSE URLParses(path)

\* http.NewRequestWithContext, then c.httpClient.Do(req): a URL that does not
\* parse is an error before anything is sent; otherwise the request goes on
\* the wire and the caller blocks for the response; with a context that is
\* already done nothing is sent
SendRequest(p, from, to, withCtx) ==
    /\ pc[p] = from
    /\ IF ~RequestCreated(ga[p].path)
       THEN /\ ga' = [ga EXCEPT ![p].resp = CreateError]
            /\ pc' = [pc EXCEPT ![p] = to]
            /\ UNCHANGED <<wire, loc>>
       ELSE IF withCtx /\ ctxDone
       THEN /\ ga' = [ga EXCEPT ![p].resp = NetError]
            /\ pc' = [pc EXCEPT ![p] = to]
            /\ UNCHANGED <<wire, loc>>
       ELSE /\ wire' = wire \cup {[proc |-> p, n |-> loc[p].reqs + 1]}
            /\ loc' = [loc EXCEPT ![p].reqs = @ + 1]
            /\ pc' = [pc EXCEPT ![p] = "await"]
            /\ UNCHANGED ga
    /\ UNCHANGED <<rlvars, lrvars, now, wake, calls, granted, hasReset, ctxDone, op>>

\* GetAll: pr.client.doRequestContext(ctx, "GET", currentPath, nil)
GaRequest(p) == SendRequest(p, "g_request", "g_response", TRUE)

\* Get, Post, Put, Delete: c.doRequest(method, path, body), which runs under
\* context.Background()
DirectRequest(p) == SendRequest(p, "c_request", "c_response", FALSE)

\* where the caller goes on when c.httpClient.Do returns
AfterDo(p) == IF op[p] = "GetAll" THEN "g_response" ELSE "c_response"

\* the server answers a request in flight, or the transport fails
ServerRespond(p, r) ==
    /\ pc[p] = "await"
    /\ \E w \in wire : w.proc = p
    /\ wire' = {w \in wire : w.proc # p}
    /\ ga' = [ga EXCEPT ![p].resp = r,
                        ![p].opened = @ + (IF r.kind = "http" THEN 1 ELSE 0)]
    /\ pc' = [pc EXCEPT ![p] = AfterDo(p)]
    /\ UNCHANGED <<rlvars, lrvars, now, wake, loc, calls, granted, hasReset, ctxDone,
                   op>>

\* mutant: a transport that does not watch the context of a request in
\* flight
AbortRequestNever(p) ==
    /\ FALSE
    /\ UNCHANGED vars

\* the context of a request in flight ends: Do returns the context's error
AbortRequest(p) ==
    /\ pc[p] = "await"
    /\ op[p] = "GetAll"
    /\ ctxDone
    /\ wire' = {w \in wire : w.proc # p}
    /\ ga' = [ga EXCEPT ![p].resp = NetError]
    /\ pc' = [pc EXCEPT ![p] = AfterDo(p)]
    /\ UNCHANGED <<rlvars, lrvars, now, wake, loc, calls, granted, hasReset, ctxDone,
                   op>>

\* parseNextLinkURL(linkHeader) for the Link headers the servers send
NextLinkOf == [h \in Headers |-> parseNextLinkURL(h)]

\* GetAll, the end of an iteration that goes on to currentPath: the delay
\* when there is a next page; hang when the Link header parser never returns
GaContinue(p, g, currentPath, hang) ==
    /\ ga' = [ga EXCEPT ![p] = [g EXCEPT !.path = currentPath]]
    /\ pc' = [pc EXCEPT ![p] = IF hang THEN "g_hang"
                               ELSE IF currentPath # <<>> THEN "g_delay"
                               ELSE "g_loop"]
    /\ wake' = [wake EXCEPT ![p] =
                   IF currentPath # <<>> THEN now + PageDelay ELSE @]

\* GetAll: linkHeader := resp.Header.Get("Link"), next is
\* parseNextLinkURL(linkHeader); currentPath = extractPathFromURL(nextURL)
GaFollow(p, g, next) ==
    GaContinue(p, g,
               IF next.url # <<>> THEN extractPathFromURL(next.url) ELSE <<>>,
               next.hang)

\* mutant: a GetAll that calls pageCheck and goes on whatever it returns
GaCheckedIgnore(p, g, goOn) ==
    GaFollow(p, g, NextLinkOf[g.resp.link])

\* GetAll: the pageCheck callback has been called and returned goOn
GaChecked(p, g, goOn) ==
    IF ~goOn THEN Finish(p, g, "nil") /\ UNCHANGED wake
    ELSE GaFollow(p, g, NextLinkOf[g.resp.link])

\* mutant: a GetAll without the empty-page stop
GaAdvanceNoEmptyStop(p, g) ==
    IF Len(g.resp.items) = 0
    THEN /\ UNCHANGED ctxDone
         /\ GaFollow(p, g, NextLinkOf[g.resp.link])
    ELSE IF g.maxPages > 0 /\ g.pageCount >= g.maxPages
    THEN Finish(p, g, "nil") /\ UNCHANGED <<ctxDone, wake>>
    ELSE IF g.check # "nil"
    THEN /\ ctxDone' = (ctxDone \/ g.check = "cancelTrue")
         /\ GaChecked(p, [g EXCEPT !.checks =
                              Append(@, pageCheck(g.check, g.resp.items))],
                      pageCheck(g.check, g.resp.items))
    ELSE /\ UNCHANGED ctxDone
         /\ GaFollow(p, g, NextLinkOf[g.resp.link])

\* mutant: a maxPages test that lets one page too many through
GaAdvanceOffByOne(p, g) ==
    IF Len(g.resp.items) = 0
    THEN Finish(p, g, "nil") /\ UNCHANGED <<ctxDone, wake>>
    ELSE IF g.maxPages > 0 /\ g.pageCount > g.maxPages
    THEN Finish(p, g, "nil") /\ UNCHANGED <<ctxDone, wake>>
    ELSE IF g.check # "nil"
    THEN /\ ctxDone' = (ctxDone \/ g.check = "cancelTrue")
         /\ GaChecked(p, [g EXCEPT !.checks =
                              Append(@, pageCheck(g.check, g.resp.items))],
                      pageCheck(g.check, g.resp.items))
    ELSE /\ UNCHANGED ctxDone
         /\ GaFollow(p, g, NextLinkOf[g.resp.link])

\* mutant: a GetAll that calls pageCheck before it tests maxPages
GaAdvanceCheckFirst(p, g) ==
    IF Len(g.resp.items) = 0
    THEN Finish(p, g, "nil") /\ UNCHANGED <<ctxDone, wake>>
    ELSE IF g.check # "nil"
    THEN /\ ctxDone' = (ctxDone \/ g.check = "cancelTrue")
         /\ IF g.maxPages > 0 /\ g.pageCount >= g.maxPages
            THEN /\ Finish(p, [g EXCEPT !.checks =
                                   Append(@, pageCheck(g.check, g.resp.items))],
                           "nil")
                 /\ UNCHANGED wake
            ELSE GaChecked(p, [g EXCEPT !.checks =
                                  Append(@, pageCheck(g.check, g.resp.items))],
                           pageCheck(g.check, g.resp.items))
    ELSE IF g.maxPages > 0 /\ g.pageCount >= g.maxPages
    THEN Finish(p, g, "nil") /\ UNCHANGED <<ctxDone, wake>>
    ELSE /\ UNCHANGED ctxDone
         /\ GaFollow(p, g, NextLinkOf[g.resp.link])

\* GetAll after a page is appended: the stop conditions in their order (empty
\* page, maxPages, pageCheck), then the Link header
GaAdvance(p, g) ==
    IF Len(g.resp.items) = 0
    THEN Finish(p, g, "nil") /\ UNCHANGED <<ctxDone, wake>>
    ELSE IF g.maxPages > 0 /\ g.pageCount >= g.maxPages
    THEN Finish(p, g, "nil") /\ UNCHANGED <<ctxDone, wake>>
    ELSE IF g.check # "nil"
    THEN /\ ctxDone' = (ctxDone \/ g.check = "cancelTrue")
         /\ GaChecked(p, [g EXCEPT !.checks =
                              Append(@, pageCheck(g.check, g.resp.items))],
                      pageCheck(g.check, g.resp.items))
    ELSE /\ UNCHANGED ctxDone
         /\ GaFollow(p, g, NextLinkOf[g.resp.link])

\* doRequestWithHeadersContext on a response with a status from 400 on: the
\* body is read and, by the deferred call, closed; a transport error comes
\* without a response
CoreClosed(g) ==
    [g EXCEPT !.closed = @ + (IF g.resp.kind = "http" THEN 1 ELSE 0)]

\* GetAll: doRequestContext returned an error
GaFailed(p) ==
    /\ pc[p] = "g_response"
    /\ requestError(ga[p].resp) # "ok"
    /\ Finish(p, CoreClosed(ga[p]), "failed to fetch paginated results")
    /\ UNCHANGED <<rlvars, lrvars, now, op, loc, calls, granted, hasReset, wire,
                   ctxDone, wake>>

\* mutant: a GetAll that returns the decode error without closing the body
GaDecodedLeak(p) ==
    /\ pc[p] = "g_response"
    /\ requestError(ga[p].resp) = "ok"
    /\ IF ~ga[p].resp.decodes
       THEN /\ Finish(p, ga[p], "failed to decode paginated results")
            /\ UNCHANGED <<ctxDone, wake>>
       ELSE GaAdvance(p, [ga[p] EXCEPT !.closed = @ + 1,
                                       !.result = @ \o ga[p].resp.items,
                                       !.pages = Append(@, ga[p].resp.items),
                                       !.totalFetched = @ + Len(ga[p].resp.items),
                                       !.pageCount = @ + 1])
    /\ UNCHANGED <<rlvars, lrvars, now, op, loc, calls, granted, hasReset, wire>>

\* GetAll from the response to the end of the iteration: the decoding of the
\* body and its Close, the append to the result, the counters, then GaAdvance
GaDecoded(p) ==
    /\ pc[p] = "g_response"
    /\ requestError(ga[p].resp) = "ok"
    /\ IF ~ga[p].resp.decodes
       THEN /\ Finish(p, [ga[p] EXCEPT !.closed = @ + 1],
                      "failed to decode paginated results")
            /\ UNCHANGED <<ctxDone, wake>>
       ELSE GaAdvance(p, [ga[p] EXCEPT !.closed = @ + 1,
                                       !.result = @ \o ga[p].resp.items,
                                       !.pages = Append(@, ga[p].resp.items),
                                       !.totalFetched = @ + Len(ga[p].resp.items),
                                       !.pageCount = @ + 1])
    /\ UNCHANGED <<rlvars, lrvars, now, op, loc, calls, granted, hasReset, wire>>

\* GetAll from the return of doRequestContext to the end of the iteration
GaProcess(p) == GaFailed(p) \/ GaDecoded(p)

\* GetAll: time.Sleep(100 * time.Millisecond) returns
GaDelayDone(p) ==
    /\ pc[p] = "g_delay"
    /\ now >= wake[p]
    /\ pc' = [pc EXCEPT ![p] = "g_loop"]
    /\ UNCHANGED <<rlvars, now, op, wake, loc, calls, granted, hasReset,
                   pgvars>>

\* Get, Post, Put, Delete from the return of doRequest: the error, the decoding
\* of the body into the result when there is one (Delete has none and never
\* reads the body), the deferred Close
DirectProcess(p) ==
    /\ pc[p] = "c_response"
    /\ LET g == ga[p]
           e == requestError(g.resp) IN
       IF e # "ok" THEN Finish(p, CoreClosed(g), e)
       ELSE IF g.into = "nil"
       THEN Finish(p, [g EXCEPT !.closed = @ + 1], "nil")
       ELSE IF ~g.resp.decodes \/ g.into = "value"
       THEN Finish(p, [g EXCEPT !.closed = @ + 1], "failed to decode response")
       ELSE Finish(p, [g EXCEPT !.closed = @ + 1, !.result = g.resp.items], "nil")
    /\ UNCHANGED <<rlvars, lrvars, now, op, wake, loc, calls, granted, hasReset,
                   ctxDone, wire>>

\* the caller's cancel() of the context
Cancel ==
    /\ ~ctxDone
    /\ ctxDone' = TRUE
    /\ UNCHANGED <<rlvars, lrvars, now, op, pc, wake, loc, calls, granted, hasReset,
                   ga, wire>>

PageNext ==
    \/ \E p \in Fetchers : \E k \in 0..MaxPagesBound : \E c \in CheckKinds :
          \E into \in GetAllResults : StartGetAll(p, k, c, into)
    \/ \E p \in Fetchers : \E m \in {"Get", "Post", "Put", "Delete"} :
          \E payload \in Payloads : \E into \in ResultArgs :
              StartDirect(p, m, payload, into)
    \/ \E p \in Fetchers : \E into \in ResultArgs : StartGetPage(p, into)
    \/ \E p \in Fetchers : GaLoop(p)
    \/ \E p \in Fetchers : WaitLock(p)
    \/ \E p \in Fetchers : WaitRefill(p)
    \/ \E p \in Fetchers : WaitDec(p)
    \/ \E p \in Fetchers : WaitCalc(p)
    \/ \E p \in Fetchers : WaitWake(p)
    \/ \E p \in Fetchers : WaitReturn(p)
    \/ \E p \in Fetchers : GaRequest(p)
    \/ \E p \in Fetchers : DirectRequest(p)
    \/ \E p \in Fetchers : \E r \in Responses \cup {NetError} : ServerRespond(p, r)
    \/ \E p \in Fetchers : AbortRequest(p)
    \/ \E p \in Fetchers : GaProcess(p)
    \/ \E p \in Fetchers : GaDelayDone(p)
    \/ \E p \in Fetchers : DirectProcess(p)
    \/ \E p \in Fetchers : CallReturn(p)
    \/ Cancel
    \/ Tick

PageSpec == PageInit /\ [][PageNext]_vars

(***************************************************************************)
(* sortRecordings and filterRecordings.  A Recording is modelled by its ID, *)
(* its UpdatedAt (a positive integer) and the ID of its Creator.            *)
(***************************************************************************)
\* the less function of sortRecordings: recordings[i].UpdatedAt.After(...)
After(a, b) == a.UpdatedAt > b.UpdatedAt

\* mutant: an insertion that puts r in front of the elements it is equal to
RECURSIVE InsertBeforeEqual(_, _)
InsertBeforeEqual(sorted, r) ==
    IF sorted = <<>> THEN <<r>>
    ELSE IF ~After(Head(sorted), r) THEN <<r>> \o sorted
    ELSE <<Head(sorted)>> \o InsertBeforeEqual(Tail(sorted), r)

\* one insertion of a stable sort: r goes in front of the first element it
\* is less than, behind every element it is not less than
RECURSIVE InsertStable(_, _)
InsertStable(sorted, r) ==
    IF sorted = <<>> THEN <<r>>
    ELSE IF After(r, Head(sorted)) THEN <<r>> \o sorted
    ELSE <<Head(sorted)>> \o InsertStable(Tail(sorted), r)

RECURSIVE SortFrom(_, _, _)
SortFrom(recordings, i, sorted) ==
    IF i > Len(recordings) THEN sorted
    ELSE SortFrom(recordings, i + 1, InsertStable(sorted, recordings[i]))

\* sortRecordings: sort.SliceStable by UpdatedAt, latest first
sortRecordings(recordings) == SortFrom(recordings, 1, <<>>)

\* mutant: a filter that cuts the input to the limit before it filters
RECURSIVE FilterFirstLimit(_, _, _, _)
FilterFirstLimit(recordings, i, filtered, opts) ==
    IF i > Len(recordings) THEN filtered
    ELSE IF opts.Limit > 0 /\ i > opts.Limit THEN filtered
    ELSE IF opts.Since # 0 /\ recordings[i].UpdatedAt < opts.Since
    THEN FilterFirstLimit(recordings, i + 1, filtered, opts)
    ELSE IF opts.PersonID > 0 /\ recordings[i].Creator # opts.PersonID
    THEN FilterFirstLimit(recordings, i + 1, filtered, opts)
    ELSE FilterFirstLimit(recordings, i + 1,
                          Append(filtered, recordings[i]), opts)

\* mutant: a since filter that also drops UpdatedAt = since
RECURSIVE FilterSinceExclusive(_, _, _, _)
FilterSinceExclusive(recordings, i, filtered, opts) ==
    IF i > Len(recordings) THEN filtered
    ELSE IF opts.Since # 0 /\ recordings[i].UpdatedAt <= opts.Since
    THEN FilterSinceExclusive(recordings, i + 1, filtered, opts)
    ELSE IF opts.PersonID > 0 /\ recordings[i].Creator # opts.PersonID
    THEN FilterSinceExclusive(recordings, i + 1, filtered, opts)
    ELSE IF opts.Limit > 0 /\ Len(filtered) + 1 >= opts.Limit
    THEN Append(filtered, recordings[i])
    ELSE FilterSinceExclusive(recordings, i + 1,
                              Append(filtered, recordings[i]), opts)

\* filterRecordings, the loop from recordings[i] on
RECURSIVE FilterFrom(_, _, _, _)
FilterFrom(recordings, i, filtered, opts) ==
    IF i > Len(recordings) THEN filtered
    ELSE IF opts.Since # 0 /\ recordings[i].UpdatedAt < opts.Since
    THEN FilterFrom(recordings, i + 1, filtered, opts)
    ELSE IF opts.PersonID > 0 /\ recordings[i].Creator # opts.PersonID
    THEN FilterFrom(recordings, i + 1, filtered, opts)
    ELSE IF opts.Limit > 0 /\ Len(filtered) + 1 >= opts.Limit
    THEN Append(filtered, recordings[i])
    ELSE FilterFrom(recordings, i + 1, Append(filtered, recordings[i]), opts)

\* filterRecordings
filterRecordings(recordings, opts) == FilterFrom(recordings, 1, <<>>, opts)

\* the recordings of an input: seq gives UpdatedAt and Creator of each, the
\* ID is the position in the input
WithIDs(seq) ==
    [i \in 1..Len(seq) |->
        [ID |-> i, UpdatedAt |-> seq[i].UpdatedAt, Creator |-> seq[i].Creator]]

Stamps == 1..MaxStamp
Persons == 1..MaxPerson

\* the inputs of sortRecordings and filterRecordings
RecordingSeqs ==
    UNION {[1..n -> [UpdatedAt : Stamps, Creator : Persons]] : n \in 0..MaxRecs}

OptsSet == [Since : 0..MaxStamp, PersonID : 0..MaxPerson, Limit : 0..MaxLimit]

SortCall(seq) ==
    /\ fn.op = "none"
    /\ fn' = [op |-> "sortRecordings", in |-> WithIDs(seq), opts |-> NoOpts,
              out |-> sortRecordings(WithIDs(seq))]
    /\ UNCHANGED <<rlvars, now, op, pc, wake, loc, calls, granted, hasReset,
                   ctxDone, ga, wire, lr>>

FilterCall(seq, opts) ==
    /\ fn.op = "none"
    /\ fn' = [op |-> "filterRecordings", in |-> WithIDs(seq), opts |-> opts,
              out |-> filterRecordings(WithIDs(seq), opts)]
    /\ UNCHANGED <<rlvars, now, op, pc, wake, loc, calls, granted, hasReset,
                   ctxDone, ga, wire, lr>>

FnNext ==
    \/ \E seq \in RecordingSeqs : SortCall(seq)
    \/ \E seq \in RecordingSeqs : \E opts \in OptsSet : FilterCall(seq, opts)

FnSpec == PageInit /\ [][FnNext]_vars

(***************************************************************************)
(* ListRecordings: one goroutine per recording type runs                   *)
(* listRecordingsByType, that is GetAll under the context of the errgroup; *)
(* the first goroutine to return an error cancels that context; g.Wait     *)
(* returns when all goroutines have returned.  An item n of a page of type *)
(* t stands for the recording with ID n, UpdatedAt n and creator t.        *)
(***************************************************************************)
Types == 1..NumTypes

\* what the server answers to a recordings request
ListResponses ==
    [kind : {"http"}, status : {200}, decodes : {TRUE}, items : OkPages,
     link : {NoLink, NextLink}]
    \cup [kind : {"http"}, status : {500}, decodes : {FALSE}, items : {<<>>},
          link : {NoLink}]

\* the answer of a server that fails
ServerError ==
    [kind |-> "http", status |-> 500, decodes |-> FALSE, items |-> <<>>,
     link |-> NoLink]

\* the options a caller passes to ListRecordings
ListOpts ==
    {NoOpts,
     [Since |-> 2, PersonID |-> 0, Limit |-> 0],
     [Since |-> 0, PersonID |-> 1, Limit |-> 1]}

\* the limiter is the one of GetRateLimiter(), scaled to MaxTokensBound
\* tokens
ListInit ==
    /\ NewRateLimiter(MaxTokensBound, 2 * MaxTokensBound)
    /\ mu = 0
    /\ now = 0
    /\ op = [t \in Types |-> "idle"]
    /\ pc = [t \in Types |-> "idle"]
    /\ wake = [t \in Types |-> 0]
    /\ loc = [t \in Types |-> NoLoc]
    /\ calls = 0
    /\ granted = 0
    /\ hasReset = FALSE
    /\ ctxDone = FALSE
    /\ ga = [t \in Types |-> NoGa]
    /\ wire = {}
    /\ lr = NoLr
    /\ fn = NoFn

\* ListRecordings up to g.Wait(): errgroup.WithContext and one g.Go per type,
\* each entering GetAll through listRecordingsByType
ListStart(opts) ==
    /\ lr.pc = "idle"
    /\ ~ctxDone
    /\ lr' = [NoLr EXCEPT !.pc = "wait", !.opts = opts,
                          !.results = [t \in Types |-> <<>>],
                          !.errs = [t \in Types |-> "nil"]]
    /\ op' = [t \in Types |-> "GetAll"]
    /\ pc' = [t \in Types |-> "g_loop"]
    /\ loc' = [t \in Types |-> NoLoc]
    /\ ga' = [t \in Types |->
                 [NoGa EXCEPT !.path = FirstPath, !.err = "running",
                              !.check = IF opts.Since # 0 THEN "since"
                                        ELSE "nil"]]
    /\ calls' = calls + NumTypes
    /\ UNCHANGED <<rlvars, now, wake, granted, hasReset, ctxDone, wire, fn>>

\* mutant: an errgroup that does not cancel its context on an error
GoReturnNoCancel(t) ==
    /\ pc[t] = "return"
    /\ lr.pc = "wait"
    /\ lr' = IF ga[t].err = "nil"
             THEN [lr EXCEPT !.results[t] = ga[t].result,
                             !.finished = @ \cup {t}]
             ELSE [lr EXCEPT !.err = IF @ = NoErr
                                     THEN [type |-> t, cause |-> ga[t].err]
                                     ELSE @,
                             !.errs[t] = ga[t].err,
                             !.finished = @ \cup {t}]
    /\ op' = [op EXCEPT ![t] = "idle"]
    /\ pc' = [pc EXCEPT ![t] = "idle"]
    /\ ga' = [ga EXCEPT ![t] = NoGa]
    /\ UNCHANGED <<rlvars, now, wake, loc, calls, granted, hasReset, ctxDone,
                   wire, fn>>

\* mutant: goroutines that share the loop variable i and all write the slot
\* of the last type
GoReturnSharedSlot(t) ==
    /\ pc[t] = "return"
    /\ lr.pc = "wait"
    /\ lr' = IF ga[t].err = "nil"
             THEN [lr EXCEPT !.results[NumTypes] = ga[t].result,
                             !.finished = @ \cup {t}]
             ELSE [lr EXCEPT !.err = IF @ = NoErr
                                     THEN [type |-> t, cause |-> ga[t].err]
                                     ELSE @,
                             !.errs[t] = ga[t].err,
                             !.finished = @ \cup {t}]
    /\ ctxDone' = (ctxDone \/ ga[t].err # "nil")
    /\ op' = [op EXCEPT ![t] = "idle"]
    /\ pc' = [pc EXCEPT ![t] = "idle"]
    /\ ga' = [ga EXCEPT ![t] = NoGa]
    /\ UNCHANGED <<rlvars, now, wake, loc, calls, granted, hasReset, wire, fn>>

\* mutant: goroutines that append to one shared slice as they complete
GoReturnAppend(t) ==
    /\ pc[t] = "return"
    /\ lr.pc = "wait"
    /\ lr' = IF ga[t].err = "nil"
             THEN [lr EXCEPT !.results =
                                 [u \in Types |->
                                     IF u = Cardinality(lr.finished) + 1
                                     THEN ga[t].result ELSE @[u]],
                             !.finished = @ \cup {t}]
             ELSE [lr EXCEPT !.err = IF @ = NoErr
                                     THEN [type |-> t, cause |-> ga[t].err]
                                     ELSE @,
                             !.errs[t] = ga[t].err,
                             !.finished = @ \cup {t}]
    /\ ctxDone' = (ctxDone \/ ga[t].err # "nil")
    /\ op' = [op EXCEPT ![t] = "idle"]
    /\ pc' = [pc EXCEPT ![t] = "idle"]
    /\ ga' = [ga EXCEPT ![t] = NoGa]
    /\ UNCHANGED <<rlvars, now, wake, loc, calls, granted, hasReset, wire, fn>>

\* the function passed to g.Go returns: results[i] = recs on success; on an
\* error the errgroup keeps the first error and cancels its context.  The
\* closure reads the i and recordingType of its own iteration, as the
\* language does from Go 1.22 on and as TestListRecordings_ParallelFetch,
\* which expects the recordings of all four types, requires.
GoReturn(t) ==
    /\ pc[t] = "return"
    /\ lr.pc = "wait"
    /\ lr' = IF ga[t].err = "nil"
             THEN [lr EXCEPT !.results[t] = ga[t].result,
                             !.finished = @ \cup {t}]
             ELSE [lr EXCEPT !.err = IF @ = NoErr
                                     THEN [type |-> t, cause |-> ga[t].err]
                                     ELSE @,
                             !.errs[t] = ga[t].err,
                             !.finished = @ \cup {t}]
    /\ ctxDone' = (ctxDone \/ ga[t].err # "nil")
    /\ op' = [op EXCEPT ![t] = "idle"]
    /\ pc' = [pc EXCEPT ![t] = "idle"]
    /\ ga' = [ga EXCEPT ![t] = NoGa]
    /\ UNCHANGED <<rlvars, now, wake, loc, calls, granted, hasReset, wire, fn>>

\* the recordings decoded for type t
Recordings(t, items) ==
    [i \in 1..Len(items) |->
        [ID |-> items[i], Type |-> t, UpdatedAt |-> items[i], Creator |-> t]]

\* ListRecordings: allRecordings = append(allRecordings, recs...) over the
\* results of the types from type t on
RECURSIVE Collect(_, _)
Collect(results, t) ==
    IF t > Len(results) THEN <<>>
    ELSE Recordings(t, results[t]) \o Collect(results, t + 1)

\* mutant: a ListRecordings that returns what it has when a fetch failed
ListReturnPartial ==
    /\ lr.pc = "wait"
    /\ lr.finished = Types
    /\ lr' = [lr EXCEPT !.pc = "done",
                        !.ret = filterRecordings(
                                    sortRecordings(Collect(lr.results, 1)),
                                    lr.opts),
                        !.retErr = lr.err]
    /\ ctxDone' = TRUE
    /\ UNCHANGED <<rlvars, now, op, pc, wake, loc, calls, granted, hasReset,
                   ga, wire, fn>>

\* ListRecordings from the return of g.Wait(): nil and the error, or the
\* collected recordings sorted and filtered
ListReturn ==
    /\ lr.pc = "wait"
    /\ lr.finished = Types
    /\ lr' = IF lr.err # NoErr
             THEN [lr EXCEPT !.pc = "done", !.ret = <<>>, !.retErr = lr.err]
             ELSE [lr EXCEPT !.pc = "done",
                             !.ret = filterRecordings(
                                         sortRecordings(Collect(lr.results, 1)),
                                         lr.opts)]
    /\ ctxDone' = TRUE
    /\ UNCHANGED <<rlvars, now, op, pc, wake, loc, calls, granted, hasReset,
                   ga, wire, fn>>

ListNext ==
    \/ \E opts \in ListOpts : ListStart(opts)
    \/ \E t \in Types : GaLoop(t)
    \/ \E t \in Types : WaitLock(t)
    \/ \E t \in Types : WaitRefill(t)
    \/ \E t \in Types : WaitDec(t)
    \/ \E t \in Types : WaitCalc(t)
    \/ \E t \in Types : WaitWake(t)
    \/ \E t \in Types : WaitReturn(t)
    \/ \E t \in Types : GaRequest(t)
    \/ \E t \in Types : \E r \in ListResponses : ServerRespond(t, r)
    \/ \E t \in Types : AbortRequest(t)
    \/ \E t \in Types : GaProcess(t)
    \/ \E t \in Types : GaDelayDone(t)
    \/ \E t \in Types : GoReturn(t)
    \/ ListReturn
    \/ Cancel
    \/ Tick

ListSpec == ListInit /\ [][ListNext]_vars

(***************************************************************************)
(* GetAll against a slow server: a response reaches the client only while  *)
(* the context of its request is live; once the context is done the        *)
(* transport gives the request up and the late response is dropped.  The   *)
(* goroutine that runs GetAll is scheduled: the return of                  *)
(* c.httpClient.Do on a done context and the handling of its error happen. *)
(***************************************************************************)
SlowServerRespond(p, r) ==
    /\ ~ctxDone
    /\ ServerRespond(p, r)

\* what the slow server answers: a page with or without a next link
SlowResponses ==
    [kind : {"http"}, status : {200}, decodes : {TRUE}, items : OkPages,
     link : {NoLink, NextLink}]

SlowNext ==
    \/ \E p \in Fetchers : StartGetAll(p, 0, "nil", "result")
    \/ \E p \in Fetchers : GaLoop(p)
    \/ \E p \in Fetchers : WaitLock(p)
    \/ \E p \in Fetchers : WaitRefill(p)
    \/ \E p \in Fetchers : WaitDec(p)
    \/ \E p \in Fetchers : WaitCalc(p)
    \/ \E p \in Fetchers : WaitWake(p)
    \/ \E p \in Fetchers : WaitReturn(p)
    \/ \E p \in Fetchers : GaRequest(p)
    \/ \E p \in Fetchers : \E r \in SlowResponses : SlowServerRespond(p, r)
    \/ \E p \in Fetchers : AbortRequest(p)
    \/ \E p \in Fetchers : GaProcess(p)
    \/ \E p \in Fetchers : GaDelayDone(p)
    \/ \E p \in Fetchers : CallReturn(p)
    \/ Cancel
    \/ Tick

SlowSpec ==
    /\ PageInit
    /\ [][SlowNext]_vars
    /\ \A p \in Fetchers : WF_vars(AbortRequest(p))
    /\ \A p \in Fetchers : WF_vars(GaFailed(p))

(***************************************************************************)
(* ListRecordings with scheduled goroutines and a clock that never stops:  *)
(* a goroutine that can take a step eventually takes it, time passes at    *)
(* any moment, whether goroutines are runnable or not, the caller may      *)
(* cancel its context at any moment, the return of c.httpClient.Do on a    *)
(* done context happens, and a response reaches the client only while the  *)
(* context of its request is live.  Nothing is assumed about when, or      *)
(* whether, the server answers.  The server holds at most LivePages pages  *)
(* of a type: it sends no Link header on the page that answers the         *)
(* LivePages-th request.                                                   *)
(***************************************************************************)
\* the steps of the goroutine of type t that do not wait for the server
GoSteps(t) ==
    \/ GaLoop(t)
    \/ WaitSteps(t)
    \/ GaRequest(t)
    \/ AbortRequest(t)
    \/ GaProcess(t)
    \/ GaDelayDone(t)
    \/ GoReturn(t)

\* the pages the server answers with, items standing for UpdatedAt; the
\* empty page is the answer of recordingsServer for a type without recordings
LiveItems == {<<>>, <<1>>, <<3>>}

\* what the server may answer to the request in flight of type t: a page, a
\* body that does not decode, or an error
LiveResponses(t) ==
    [kind : {"http"}, status : {200}, decodes : {TRUE}, items : LiveItems,
     link : IF loc[t].reqs < LivePages THEN {NoLink, NextLink} ELSE {NoLink}]
    \cup [kind : {"http"}, status : {200}, decodes : {FALSE}, items : {<<>>},
          link : {NoLink}]
    \cup {ServerError}

ListLiveNext ==
    \/ \E opts \in ListOpts : ListStart(opts)
    \/ \E t \in Types : GoSteps(t)
    \/ \E t \in Types : \E r \in LiveResponses(t) : SlowServerRespond(t, r)
    \/ ListReturn
    \/ Cancel
    \/ TickLive

ListLiveSpec ==
    /\ ListInit
    /\ [][ListLiveNext]_vars
    /\ \A t \in Types : WF_vars(GoSteps(t))
    /\ WF_vars(ListReturn)
    /\ WF_vars(TickLive)

(***************************************************************************)
(* ListRecordings with a since cutoff against a server that holds a fixed  *)
(* list of pages per recording type, as the server of                      *)
(* TestListRecordingsByType_EarlyTermination does: the n-th request of a   *)
(* type is answered with its n-th page, with a Link header to the next     *)
(* page on every page but the last, or with an error.  lr.served are the   *)
(* pages the server holds.                                                 *)
(***************************************************************************)
\* the pages a type may consist of, items standing for UpdatedAt
ServedPages == {<<>>, <<1>>, <<3>>, <<2, 1>>, <<3, 2>>}

\* the lists of pages the server may hold for a type
ServedLists ==
    UNION {[1..n -> ServedPages] : n \in 1..MaxRequests}

\* the number of pages the server holds for the types from t on
RECURSIVE ServedCount(_, _)
ServedCount(served, t) ==
    IF t > NumTypes THEN 0 ELSE Len(served[t]) + ServedCount(served, t + 1)

\* what the server may hold: at most MaxServed pages over all types, and
\* more than one page for at most MaxPaged types
Served ==
    {served \in [Types -> ServedLists] :
        /\ ServedCount(served, 1) <= MaxServed
        /\ Cardinality({t \in Types : Len(served[t]) > 1}) <= MaxPaged}

\* the cutoff of the call
SinceOpts == [Since |-> 2, PersonID |-> 0, Limit |-> 0]

\* the answer to the n-th request for a list of pages
ServedPage(served, n) ==
    [kind |-> "http", status |-> 200, decodes |-> TRUE, items |-> served[n],
     link |-> IF n < Len(served) THEN NextLink ELSE NoLink]

\* ListRecordings(ctx, projectID, &ActivityListOptions{Since: &cutoff}) up to
\* g.Wait(), the server holding the pages of served for every type
ServedStart(served) ==
    /\ lr.pc = "idle"
    /\ ~ctxDone
    /\ lr' = [NoLr EXCEPT !.pc = "wait", !.opts = SinceOpts,
                          !.results = [t \in Types |-> <<>>],
                          !.errs = [t \in Types |-> "nil"]]
             @@ [served |-> served]
    /\ op' = [t \in Types |-> "GetAll"]
    /\ pc' = [t \in Types |-> "g_loop"]
    /\ loc' = [t \in Types |-> NoLoc]
    /\ ga' = [t \in Types |->
                 [NoGa EXCEPT !.path = FirstPath, !.err = "running",
                              !.check = "since"]]
    /\ calls' = calls + NumTypes
    /\ UNCHANGED <<rlvars, now, wake, granted, hasReset, ctxDone, wire, fn>>

\* the server answers the request in flight of type t
ServedRespond(t) ==
    /\ pc[t] = "await"
    /\ loc[t].reqs \in 1..Len(lr.served[t])
    /\ \E r \in {ServedPage(lr.served[t], loc[t].reqs), ServerError} :
           ServerRespond(t, r)

ServedNext ==
    \/ /\ lr.pc = "idle"
       /\ \E served \in Served : ServedStart(served)
    \/ \E t \in Types : GoSteps(t)
    \/ \E t \in Types : ServedRespond(t)
    \/ ListReturn
    \/ TickLive

ServedSpec == ListInit /\ [][ServedNext]_vars

(***************************************************************************)
(* parseNextLinkURL, parseLinkHeaderEntries and extractPathFromURL on the  *)
(* Link headers a server may send.  A header is a list of links joined by  *)
(* ", "; a link is written from its URL, an optional title parameter and   *)
(* its rel parameter, and may be malformed.  fn holds the call: the header *)
(* passed, the links it was written from, and what the parser returned.    *)
(***************************************************************************)
\* the URLs of the links
LinkURLs == {<<"/", "2">>, <<"/", "3">>}

\* the rel parameters of the links: the text after "rel=", and whether next
\* is one of the relation types it lists (the types are separated by white
\* space: a space, a vertical tab x0B, a no-break space xC2 xA0)
LinkRels ==
    {[text |-> <<"\"", "n", "e", "x", "t", "\"">>, next |-> TRUE],
     [text |-> <<"\"", "N", "E", "X", "T", "\"">>, next |-> TRUE],
     [text |-> <<"\"", "n", "e", "x", "t", " ", "p", "r", "e", "f", "e", "t", "c", "h", "\"">>, next |-> TRUE],
     [text |-> <<"n", "e", "x", "t">>, next |-> TRUE],
     [text |-> <<"\"", "p", "r", "e", "v", "x0B", "n", "e", "x", "t", "\"">>, next |-> TRUE],
     [text |-> <<"\"", "p", "r", "e", "v", "xC2", "xA0", "n", "e", "x", "t", "\"">>, next |-> TRUE],
     [text |-> <<"\"", "p", "r", "e", "v", "\"">>, next |-> FALSE],
     [text |-> <<"\"", "n", "e", "x", "t", "s", "\"">>, next |-> FALSE]}

\* the title parameters of the links: the text of the parameter, empty when
\* the link has none, and the value between its quotes
NoTitle == [text |-> <<>>, value |-> <<>>]
CommaTitle ==
    [text |-> <<"t", "i", "t", "l", "e", "=", "\"", "a", ",", " ", "b", "\"">>,
     value |-> <<"a", ",", " ", "b">>]
EscapedTitle ==
    [text |-> <<"t", "i", "t", "l", "e", "=", "\"", "a", " ", "\\", "\"", "b", "\\", "\"", ",", " ", "c", "\"">>,
     value |-> <<"a", " ", "\\", "\"", "b", "\\", "\"", ",", " ", "c">>]
LinkTitles == {NoTitle, CommaTitle, EscapedTitle}

\* how a link is written: well-formed, without the '>' of its URL, without
\* the closing quote of its rel value, or with a parameter of empty name
\* (a '=' directly after the ';' that follows the URL)
LinkShapes == {"ok", "noclose", "openquote", "emptyname"}

QuotedNext == <<"\"", "n", "e", "x", "t", "\"">>

Links ==
    [url : LinkURLs, rel : LinkRels, title : LinkTitles, shape : {"ok"}]
    \cup [url : LinkURLs, rel : {[text |-> QuotedNext, next |-> TRUE]},
          title : {NoTitle}, shape : LinkShapes \ {"ok"}]

\* the text of one link
WriteLink(l) ==
    <<"<">> \o l.url
    \o (IF l.shape = "noclose" THEN <<>> ELSE <<">">>)
    \o (IF l.shape = "emptyname" THEN <<";", "=", "x">> ELSE <<>>)
    \o (IF l.title = NoTitle THEN <<>> ELSE <<";", " ">> \o l.title.text)
    \o <<";", " ", "r", "e", "l", "=">>
    \o (IF l.shape = "openquote"
        THEN SubSeq(l.rel.text, 1, Len(l.rel.text) - 1)
        ELSE l.rel.text)

\* the text of a header
RECURSIVE WriteHeader(_)
WriteHeader(links) ==
    IF links = <<>> THEN <<>>
    ELSE IF Len(links) = 1 THEN WriteLink(links[1])
    ELSE WriteLink(links[1]) \o <<",", " ">> \o WriteHeader(Tail(links))

\* the headers: up to MaxLinks links
LinkLists == UNION {[1..n -> Links] : n \in 0..MaxLinks}

\* parseLinkHeaderEntries(h) and parseNextLinkURL(h) for the header h written
\* from links; the call has not returned when the parser does not return
ParseCall(links) ==
    /\ fn.op = "none"
    /\ fn' = [op |-> "parseNextLinkURL",
              in |-> WriteHeader(links),
              sent |-> links,
              entries |-> parseLinkHeaderEntries(WriteHeader(links)).entries,
              out |-> parseNextLinkURL(WriteHeader(links)).url,
              returned |-> ~parseNextLinkURL(WriteHeader(links)).hang]
    /\ UNCHANGED <<rlvars, now, op, pc, wake, loc, calls, granted, hasReset,
                   ctxDone, ga, wire, lr>>

\* the next-page URLs: how the URL starts (with a scheme, without one, or
\* with a ':' that url.Parse rejects), its host (the API host, another
\* host, the API host followed by a space or preceded by a userinfo with a
\* space, both of which url.Parse rejects, an IP literal, and an IP literal
\* whose zone escapes the byte 0x80, which url.Parse rejects), the first
\* segment of its path, the rest of the path and the query
URLStarts == {<<"h", "t", "t", "p", "s", ":", "/", "/">>, <<>>, <<":">>}
URLHosts == {<<"3", ".", "b", "a", "s", "e", "c", "a", "m", "p", "a", "p", "i", ".", "c", "o", "m">>, <<"a", "p", "i", ".", "e", "x", "a", "m", "p", "l", "e", ".", "c", "o", "m">>,
             <<"3", ".", "b", "a", "s", "e", "c", "a", "m", "p", "a", "p", "i", ".", "c", "o", "m", " ">>, <<"[", ":", ":", "1", "]">>,
             <<"[", "f", "e", "8", "0", ":", ":", "1", "%", "2", "5", "%", "8", "0", "]">>,
             <<"u", " ", "@", "3", ".", "b", "a", "s", "e", "c", "a", "m", "p", "a", "p", "i", ".", "c", "o", "m">>}
URLFirsts == {<<"9">>, <<"4", "2">>, <<"4", "x">>, <<"x">>}
URLRests == {<<>>, <<"/", "b", "/", "2", ".", "j", "s", "o", "n">>}
URLQueries == {<<>>, <<"?", "p", "a", "g", "e", "=", "4">>}
URLParts ==
    [start : URLStarts, host : URLHosts, first : URLFirsts, rest : URLRests,
     query : URLQueries]

\* the text of a URL
WriteURL(u) == u.start \o u.host \o <<"/">> \o u.first \o u.rest \o u.query

\* extractPathFromURL(nextURL) for the URL written from u
ExtractCall(u) ==
    /\ fn.op = "none"
    /\ fn' = [op |-> "extractPathFromURL", in |-> WriteURL(u), sent |-> u,
              out |-> extractPathFromURL(WriteURL(u))]
    /\ UNCHANGED <<rlvars, now, op, pc, wake, loc, calls, granted, hasReset,
                   ctxDone, ga, wire, lr>>

LinkNext ==
    \/ /\ fn.op = "none"
       /\ \E links \in LinkLists : ParseCall(links)
    \/ /\ fn.op = "none"
       /\ \E u \in URLParts : ExtractCall(u)

LinkSpec == PageInit /\ [][LinkNext]_vars

(***************************************************************************)
(* The Markdown converter of internal/markdown/converter.go.               *)
(* MarkdownToRichText trims its input, returns simple plain text as it is, *)
(* and otherwise renders the input with goldmark, rewrites the HTML with   *)
(* postProcessHTML and validates it with ValidateBasecampHTML.  goldmark   *)
(* is a library outside these sources: what c.md.Convert writes is given   *)
(* for the sources of GoldmarkOutput, which are the only ones passed.      *)
(***************************************************************************)

\* strings.TrimSpace
TrimSpace(s) ==
    IF TextIndices(s, 1) = {} THEN <<>>
    ELSE SubSeq(s, MinOf(TextIndices(s, 1)), MaxOf(TextIndices(s, 1)))

\* isSimplePlainText: markdownPatterns
markdownPatterns ==
    {<<"*", "*">>, <<"*">>, <<"~", "~">>, <<Backtick>>, <<"[">>, <<"]">>, <<"(">>, <<")">>, <<"#">>, <<">">>,
     <<"+">>, <<"<">>, <<"&">>, <<"@">>, <<"h", "t", "t", "p", ":", "/", "/">>, <<"h", "t", "t", "p", "s", ":", "/", "/">>, <<"m", "a", "i", "l", "t", "o", ":">>}

\* regexp ^[-+]\s
ListMarker(s) == Len(s) >= 2 /\ s[1] \in {"-", "+"} /\ s[2] \in RegexpSpaces

\* regexp ^\d+\.
NumberedMarker(s) ==
    /\ s # <<>>
    /\ s[1] \in Digits
    /\ ScanWhile(s, 1, Digits) <= Len(s)
    /\ s[ScanWhile(s, 1, Digits)] = "."

\* mutant: a fast-path test that does not look for a numbered list marker
isSimplePlainTextNoNumbers(input) ==
    /\ TrimSpace(input) # <<>>
    /\ ~Contains(input, <<"\n">>)
    /\ \A pattern \in markdownPatterns : ~Contains(input, pattern)
    /\ ~ListMarker(TrimSpace(input))

\* converter.isSimplePlainText
isSimplePlainText(input) ==
    /\ TrimSpace(input) # <<>>
    /\ ~Contains(input, <<"\n">>)
    /\ \A pattern \in markdownPatterns : ~Contains(input, pattern)
    /\ ~ListMarker(TrimSpace(input))
    /\ ~NumberedMarker(TrimSpace(input))

\* ValidateBasecampHTML: supportedTags
supportedTags ==
    {<<"d", "i", "v">>, <<"h", "1">>, <<"b", "r">>, <<"s", "t", "r", "o", "n", "g">>, <<"e", "m">>, <<"s", "t", "r", "i", "k", "e">>, <<"a">>, <<"p", "r", "e">>,
     <<"o", "l">>, <<"u", "l">>, <<"l", "i">>, <<"b", "l", "o", "c", "k", "q", "u", "o", "t", "e">>, <<"t", "a", "b", "l", "e">>, <<"t", "r">>, <<"t", "d">>,
     <<"t", "h">>, <<"t", "h", "e", "a", "d">>, <<"t", "b", "o", "d", "y">>, <<"d", "e", "t", "a", "i", "l", "s">>, <<"s", "u", "m", "m", "a", "r", "y">>, <<"f", "i", "g", "u", "r", "e">>,
     <<"f", "i", "g", "c", "a", "p", "t", "i", "o", "n">>, <<"i", "m", "g">>, <<"b", "c", "-", "a", "t", "t", "a", "c", "h", "m", "e", "n", "t">>}

\* strings.ToLower on the letters of the model
LowerOf(s) == [j \in 1..Len(s) |-> ToLower(s[j])]

NoError == [kind |-> "nil", name |-> <<>>]

\* ValidateBasecampHTML, the loop over the matches of tagRegex
\* <(/?)([a-zA-Z][a-zA-Z0-9-]*)[^>]*> from index i on: the error for the
\* first tag that is not supported.  lt is the next '<', n the index of the
\* tag name, e the index after it, gt the '>' that ends the match
RECURSIVE TagErrorAt(_, _, _, _)
RECURSIVE TagError(_, _)
\* mutant: the tag name looked up as it is written, not in lower case
TagErrorAtExact(html, lt, n, e) ==
    IF n > Len(html) \/ html[n] \notin Uppers \cup Lowers
    THEN TagError(html, lt + 1)
    ELSE IF ScanUntil(html, e, {">"}) > Len(html) THEN NoError
    ELSE IF SubSeq(html, n, e - 1) \notin supportedTags
    THEN [kind |-> "unsupported HTML tag", name |-> SubSeq(html, n, e - 1)]
    ELSE TagError(html, ScanUntil(html, e, {">"}) + 1)

TagErrorAt(html, lt, n, e) ==
    IF n > Len(html) \/ html[n] \notin Uppers \cup Lowers
    THEN TagError(html, lt + 1)
    ELSE IF ScanUntil(html, e, {">"}) > Len(html) THEN NoError
    ELSE IF LowerOf(SubSeq(html, n, e - 1)) \notin supportedTags
    THEN [kind |-> "unsupported HTML tag",
          name |-> LowerOf(SubSeq(html, n, e - 1))]
    ELSE TagError(html, ScanUntil(html, e, {">"}) + 1)

TagNameStart(html, lt) ==
    IF lt + 1 <= Len(html) /\ html[lt + 1] = "/" THEN lt + 2 ELSE lt + 1

TagError(html, i) ==
    IF ScanUntil(html, i, {"<"}) > Len(html) THEN NoError
    ELSE TagErrorAt(html, ScanUntil(html, i, {"<"}),
                    TagNameStart(html, ScanUntil(html, i, {"<"})),
                    ScanWhile(html,
                              TagNameStart(html, ScanUntil(html, i, {"<"})) + 1,
                              Uppers \cup Lowers \cup Digits \cup {"-"}))

\* the characters of \w
WordChars == Uppers \cup Lowers \cup Digits \cup {"_"}

\* attrRegex <a\s+[^>]*\s+(\w+)= matched at the "<a" at index p: the
\* indices q of the '=' a match can end at.  The match lies before the first
\* '>' behind p, and the word in front of the '=' follows a space that is not
\* the first one behind "<a"
AttrEnds(html, p) ==
    {q \in (p + 4)..(ScanUntil(html, p + 2, {">"}) - 1) :
        /\ html[q] = "="
        /\ html[q - 1] \in WordChars
        /\ \E w \in (p + 3)..(q - 2) :
              /\ html[w] \in RegexpSpaces
              /\ \A j \in (w + 1)..(q - 1) : html[j] \in WordChars}

\* the word captured by the match that ends at q
AttrName(html, q) ==
    SubSeq(html, MaxOf({w \in 1..q : html[w] \notin WordChars /\ w < q}) + 1,
           q - 1)

\* the "<a" followed by a space from index i on
AnchorStarts(html, i) ==
    {p \in i..(Len(html) - 2) :
        html[p] = "<" /\ html[p + 1] = "a" /\ html[p + 2] \in RegexpSpaces}

\* ValidateBasecampHTML, the loop over the matches of attrRegex from index i
\* on: the leftmost match, with the longest [^>]*, captures the last
\* attribute of the tag
RECURSIVE AttrError(_, _)
AttrError(html, i) ==
    IF AnchorStarts(html, i) = {} THEN NoError
    ELSE IF AttrEnds(html, MinOf(AnchorStarts(html, i))) = {}
    THEN AttrError(html, MinOf(AnchorStarts(html, i)) + 1)
    ELSE IF LowerOf(AttrName(html,
                MaxOf(AttrEnds(html, MinOf(AnchorStarts(html, i))))))
            # <<"h", "r", "e", "f">>
    THEN [kind |-> "unsupported attribute",
          name |-> LowerOf(AttrName(html,
                       MaxOf(AttrEnds(html, MinOf(AnchorStarts(html, i))))))]
    ELSE AttrError(html, MaxOf(AttrEnds(html, MinOf(AnchorStarts(html, i)))) + 1)

\* converter.ValidateBasecampHTML: the error it returns, NoError for nil
ValidateBasecampHTML(html) ==
    IF html = <<>> THEN NoError
    ELSE IF TagError(html, 1) # NoError THEN TagError(html, 1)
    ELSE AttrError(html, 1)


\* the indexes from i on at which old occurs in s
Occurrences(s, i, old) ==
    {j \in i..(Len(s) - Len(old) + 1) : SubSeq(s, j, j + Len(old) - 1) = old}

\* strings.ReplaceAll(s, old, new) from index i on
RECURSIVE ReplaceFrom(_, _, _, _)
ReplaceFrom(s, i, old, new) ==
    IF Occurrences(s, i, old) = {} THEN SubSeq(s, i, Len(s))
    ELSE SubSeq(s, i, MinOf(Occurrences(s, i, old)) - 1) \o new
         \o ReplaceFrom(s, MinOf(Occurrences(s, i, old)) + Len(old), old, new)

\* the indexes from i on at which the pattern prefix[^c]*c matches, where c
\* is the character stop
SpanStarts(s, i, prefix, stop) ==
    {j \in Occurrences(s, i, prefix) :
        ScanUntil(s, j + Len(prefix), {stop}) <= Len(s)}

\* regexp.ReplaceAllString from index i on for the pattern prefix[^c]*c:
\* every match, from the prefix to the first stop behind it, becomes new
RECURSIVE ReplaceSpanFrom(_, _, _, _, _)
ReplaceSpanFrom(s, i, prefix, stop, new) ==
    IF SpanStarts(s, i, prefix, stop) = {} THEN SubSeq(s, i, Len(s))
    ELSE SubSeq(s, i, MinOf(SpanStarts(s, i, prefix, stop)) - 1) \o new
         \o ReplaceSpanFrom(s,
                ScanUntil(s, MinOf(SpanStarts(s, i, prefix, stop))
                             + Len(prefix), {stop}) + 1,
                prefix, stop, new)

\* "<!-- " and " --"
CommentOpen == <<"<", "!", "-", "-", " ">>
CommentClose == <<" ", "-", "-">>

\* the index of the first ">" behind a "<!-- " at j
CommentEnd(s, j) == ScanUntil(s, j + Len(CommentOpen), {">"})

\* the indexes from i on at which the pattern <!-- [^>]* --> matches
CommentStarts(s, i) ==
    {j \in Occurrences(s, i, CommentOpen) :
        /\ CommentEnd(s, j) <= Len(s)
        /\ CommentEnd(s, j) - Len(CommentClose) >= j + Len(CommentOpen)
        /\ SubSeq(s, CommentEnd(s, j) - Len(CommentClose),
                  CommentEnd(s, j) - 1) = CommentClose}

\* regexp <!-- [^>]* --> replaced by "", from index i on
RECURSIVE RemoveCommentsFrom(_, _)
RemoveCommentsFrom(s, i) ==
    IF CommentStarts(s, i) = {} THEN SubSeq(s, i, Len(s))
    ELSE SubSeq(s, i, MinOf(CommentStarts(s, i)) - 1)
         \o RemoveCommentsFrom(s, CommentEnd(s, MinOf(CommentStarts(s, i))) + 1)

\* the indexes from i on at which a run of three or more "\n" starts
NewlineRuns(s, i) ==
    {j \in i..Len(s) : s[j] = "\n" /\ ScanWhile(s, j, {"\n"}) - j >= 3}

\* regexp \n{3,} replaced by "\n\n", from index i on
RECURSIVE CollapseNewlinesFrom(_, _)
CollapseNewlinesFrom(s, i) ==
    IF NewlineRuns(s, i) = {} THEN SubSeq(s, i, Len(s))
    ELSE SubSeq(s, i, MinOf(NewlineRuns(s, i)) - 1) \o <<"\n", "\n">>
         \o CollapseNewlinesFrom(s,
                ScanWhile(s, MinOf(NewlineRuns(s, i)), {"\n"}))

\* strings.TrimRight(html, "\n")
TrimRightNewlines(s) ==
    IF \A j \in 1..Len(s) : s[j] = "\n" THEN <<>>
    ELSE SubSeq(s, 1, MaxOf({j \in 1..Len(s) : s[j] # "\n"}))

\* the rewriting steps of postProcessHTML: a strings.ReplaceAll, a
\* replacement of prefix[^c]*c, and the three steps named by their kind
All(old, new) == [kind |-> "all", old |-> old, stop |-> "", new |-> new]
Span(prefix, stop, new) ==
    [kind |-> "span", old |-> prefix, stop |-> stop, new |-> new]
TrimRightStep == [kind |-> "trimright", old |-> <<>>, stop |-> "", new |-> <<>>]
CommentStep == [kind |-> "comment", old |-> <<>>, stop |-> "", new |-> <<>>]
NewlinesStep == [kind |-> "newlines", old |-> <<>>, stop |-> "", new |-> <<>>]

ApplyStep(s, step) ==
    CASE step.kind = "all" -> ReplaceFrom(s, 1, step.old, step.new)
      [] step.kind = "span" ->
            ReplaceSpanFrom(s, 1, step.old, step.stop, step.new)
      [] step.kind = "trimright" -> TrimRightNewlines(s)
      [] step.kind = "comment" -> RemoveCommentsFrom(s, 1)
      [] step.kind = "newlines" -> CollapseNewlinesFrom(s, 1)

\* the steps from the k-th on, applied in order (no step changes "")
RECURSIVE ApplySteps(_, _, _)
ApplySteps(s, steps, k) ==
    IF k > Len(steps) \/ s = <<>> THEN s
    ELSE ApplySteps(ApplyStep(s, steps[k]), steps, k + 1)

\* postProcessHTML, the steps up to cleanListFormatting
HeadSteps ==
    <<All(<<"<", "p", ">">>, <<"<", "d", "i", "v", ">">>),
      All(<<"<", "/", "p", ">">>, <<"<", "/", "d", "i", "v", ">">>),
      All(<<"<", "h", "2", ">">>, <<"<", "h", "1", ">">>),
      All(<<"<", "/", "h", "2", ">">>, <<"<", "/", "h", "1", ">">>),
      Span(<<"<", "h", "2">>, ">", <<"<", "h", "1", ">">>),
      All(<<"<", "h", "3", ">">>, <<"<", "h", "1", ">">>),
      All(<<"<", "/", "h", "3", ">">>, <<"<", "/", "h", "1", ">">>),
      Span(<<"<", "h", "3">>, ">", <<"<", "h", "1", ">">>),
      All(<<"<", "h", "4", ">">>, <<"<", "h", "1", ">">>),
      All(<<"<", "/", "h", "4", ">">>, <<"<", "/", "h", "1", ">">>),
      Span(<<"<", "h", "4">>, ">", <<"<", "h", "1", ">">>),
      All(<<"<", "h", "5", ">">>, <<"<", "h", "1", ">">>),
      All(<<"<", "/", "h", "5", ">">>, <<"<", "/", "h", "1", ">">>),
      Span(<<"<", "h", "5">>, ">", <<"<", "h", "1", ">">>),
      All(<<"<", "h", "6", ">">>, <<"<", "h", "1", ">">>),
      All(<<"<", "/", "h", "6", ">">>, <<"<", "/", "h", "1", ">">>),
      Span(<<"<", "h", "6">>, ">", <<"<", "h", "1", ">">>),
      All(<<"<", "d", "e", "l", ">">>, <<"<", "s", "t", "r", "i", "k", "e", ">">>),
      All(<<"<", "/", "d", "e", "l", ">">>, <<"<", "/", "s", "t", "r", "i", "k", "e", ">">>),
      All(<<"<", "c", "o", "d", "e", ">">>, <<"<", "p", "r", "e", ">">>),
      All(<<"<", "/", "c", "o", "d", "e", ">">>, <<"<", "/", "p", "r", "e", ">">>),
      Span(<<"<", "p", "r", "e", ">", "<", "c", "o", "d", "e">>, ">", <<"<", "p", "r", "e", ">">>),
      All(<<"<", "/", "c", "o", "d", "e", ">", "<", "/", "p", "r", "e", ">">>, <<"<", "/", "p", "r", "e", ">">>),
      All(<<"<", "p", "r", "e", ">", "<", "p", "r", "e", ">">>, <<"<", "p", "r", "e", ">">>),
      All(<<"<", "/", "p", "r", "e", ">", "<", "/", "p", "r", "e", ">">>, <<"<", "/", "p", "r", "e", ">">>),
      All(<<"<", "h", "r", " ", "/", ">">>, <<"<", "b", "r", ">", "\n">>),
      All(<<"<", "h", "r", "/", ">">>, <<"<", "b", "r", ">", "\n">>),
      All(<<"<", "h", "r", ">">>, <<"<", "b", "r", ">", "\n">>),
      All(<<"<", "b", "r", " ", "/", ">">>, <<"<", "b", "r", ">">>)>>

\* converter.cleanListFormatting
cleanListFormatting ==
    <<All(<<"<", "/", "l", "i", ">", "<", "u", "l", ">">>, <<"<", "/", "l", "i", ">", "\n", "<", "u", "l", ">">>),
      All(<<"<", "/", "l", "i", ">", "<", "o", "l", ">">>, <<"<", "/", "l", "i", ">", "\n", "<", "o", "l", ">">>),
      All(<<"<", "/", "u", "l", ">", "<", "/", "l", "i", ">">>, <<"<", "/", "u", "l", ">", "\n", "<", "/", "l", "i", ">">>),
      All(<<"<", "/", "o", "l", ">", "<", "/", "l", "i", ">">>, <<"<", "/", "o", "l", ">", "\n", "<", "/", "l", "i", ">">>),
      All(<<"<", "/", "u", "l", ">", "<">>, <<"<", "/", "u", "l", ">", "\n", "<">>),
      All(<<"<", "/", "o", "l", ">", "<">>, <<"<", "/", "o", "l", ">", "\n", "<">>),
      All(<<"<", "/", "l", "i", ">", "<", "l", "i", ">">>, <<"<", "/", "l", "i", ">", "\n", "<", "l", "i", ">">>),
      TrimRightStep>>

\* converter.stripUnsupportedTags
stripUnsupportedTags ==
    <<Span(<<"<", "s", "p", "a", "n">>, ">", <<>>),
      All(<<"<", "/", "s", "p", "a", "n", ">">>, <<>>),
      Span(<<" ", "s", "t", "y", "l", "e", "=", "\"">>, Quote, <<>>),
      Span(<<" ", "c", "l", "a", "s", "s", "=", "\"">>, Quote, <<>>),
      Span(<<" ", "i", "d", "=", "\"">>, Quote, <<>>),
      All(<<"<", "!", "-", "-", " ", "r", "a", "w", " ", "H", "T", "M", "L", " ", "o", "m", "i", "t", "t", "e", "d", " ", "-", "-", ">">>, <<>>),
      All(<<"r", "a", "w", " ", "H", "T", "M", "L">>, <<>>)>>

\* postProcessHTML, the steps after stripUnsupportedTags
TailSteps ==
    <<All(<<"&", "#", "3", "9", ";">>, <<"'">>),
      CommentStep,
      All(<<"<", "b", "l", "o", "c", "k", "q", "u", "o", "t", "e", ">", "\n">>, <<"<", "b", "l", "o", "c", "k", "q", "u", "o", "t", "e", ">">>),
      All(<<"\n", "<", "/", "b", "l", "o", "c", "k", "q", "u", "o", "t", "e", ">">>, <<"<", "/", "b", "l", "o", "c", "k", "q", "u", "o", "t", "e", ">">>),
      NewlinesStep,
      All(<<"<", "b", "r", ">", "\n">>, <<"<", "b", "r", ">">>)>>

\* converter.postProcessHTML
postProcessHTML(html) ==
    ApplySteps(html,
               HeadSteps \o cleanListFormatting \o stripUnsupportedTags
               \o TailSteps, 1)


\* TestMarkdownToRichText: the inputs of the test cases and the results the
\* test asserts for them

TestCases ==
    {[input |-> <<"H", "e", "l", "l", "o", " ", "w", "o", "r", "l", "d">>,
      expected |-> <<"H", "e", "l", "l", "o", " ", "w", "o", "r", "l", "d">>],
     [input |-> <<"T", "h", "i", "s", " ", "i", "s", " ", "*", "*", "b", "o", "l", "d", "*", "*", " ", "t", "e", "x", "t">>,
      expected |-> <<"<", "d", "i", "v", ">", "T", "h", "i", "s", " ", "i", "s", " ", "<", "s", "t", "r", "o", "n", "g", ">", "b", "o", "l", "d", "<", "/", "s", "t", "r", "o", "n", "g", ">", " ", "t", "e", "x", "t", "<", "/", "d", "i", "v", ">">>],
     [input |-> <<"T", "h", "i", "s", " ", "i", "s", " ", "*", "i", "t", "a", "l", "i", "c", "*", " ", "t", "e", "x", "t">>,
      expected |-> <<"<", "d", "i", "v", ">", "T", "h", "i", "s", " ", "i", "s", " ", "<", "e", "m", ">", "i", "t", "a", "l", "i", "c", "<", "/", "e", "m", ">", " ", "t", "e", "x", "t", "<", "/", "d", "i", "v", ">">>],
     [input |-> <<"T", "h", "i", "s", " ", "i", "s", " ", "~", "~", "s", "t", "r", "i", "k", "e", "t", "h", "r", "o", "u", "g", "h", "~", "~", " ", "t", "e", "x", "t">>,
      expected |-> <<"<", "d", "i", "v", ">", "T", "h", "i", "s", " ", "i", "s", " ", "<", "s", "t", "r", "i", "k", "e", ">", "s", "t", "r", "i", "k", "e", "t", "h", "r", "o", "u", "g", "h", "<", "/", "s", "t", "r", "i", "k", "e", ">", " ", "t", "e", "x", "t", "<", "/", "d", "i", "v", ">">>],
     [input |-> <<"T", "h", "i", "s", " ", "h", "a", "s", " ", "*", "*", "b", "o", "l", "d", "*", "*", ",", " ", "*", "i", "t", "a", "l", "i", "c", "*", ",", " ", "a", "n", "d", " ", "~", "~", "s", "t", "r", "i", "k", "e", "~", "~", " ", "t", "e", "x", "t">>,
      expected |-> <<"<", "d", "i", "v", ">", "T", "h", "i", "s", " ", "h", "a", "s", " ", "<", "s", "t", "r", "o", "n", "g", ">", "b", "o", "l", "d", "<", "/", "s", "t", "r", "o", "n", "g", ">", ",", " ", "<", "e", "m", ">", "i", "t", "a", "l", "i", "c", "<", "/", "e", "m", ">", ",", " ", "a", "n", "d", " ", "<", "s", "t", "r", "i", "k", "e", ">", "s", "t", "r", "i", "k", "e", "<", "/", "s", "t", "r", "i", "k", "e", ">", " ", "t", "e", "x", "t", "<", "/", "d", "i", "v", ">">>],
     [input |-> <<"#", " ", "H", "e", "a", "d", "i", "n", "g", " ", "1">>,
      expected |-> <<"<", "h", "1", ">", "H", "e", "a", "d", "i", "n", "g", " ", "1", "<", "/", "h", "1", ">">>],
     [input |-> <<"#", "#", " ", "H", "e", "a", "d", "i", "n", "g", " ", "2">>,
      expected |-> <<"<", "h", "1", ">", "H", "e", "a", "d", "i", "n", "g", " ", "2", "<", "/", "h", "1", ">">>],
     [input |-> <<"#", "#", "#", " ", "H", "e", "a", "d", "i", "n", "g", " ", "3">>,
      expected |-> <<"<", "h", "1", ">", "H", "e", "a", "d", "i", "n", "g", " ", "3", "<", "/", "h", "1", ">">>],
     [input |-> <<"C", "h", "e", "c", "k", " ", "o", "u", "t", " ", "[", "G", "i", "t", "H", "u", "b", "]", "(", "h", "t", "t", "p", "s", ":", "/", "/", "g", "i", "t", "h", "u", "b", ".", "c", "o", "m", ")">>,
      expected |-> <<"<", "d", "i", "v", ">", "C", "h", "e", "c", "k", " ", "o", "u", "t", " ", "<", "a", " ", "h", "r", "e", "f", "=", "\"", "h", "t", "t", "p", "s", ":", "/", "/", "g", "i", "t", "h", "u", "b", ".", "c", "o", "m", "\"", ">", "G", "i", "t", "H", "u", "b", "<", "/", "a", ">", "<", "/", "d", "i", "v", ">">>],
     [input |-> <<"V", "i", "s", "i", "t", " ", "<", "h", "t", "t", "p", "s", ":", "/", "/", "g", "i", "t", "h", "u", "b", ".", "c", "o", "m", ">">>,
      expected |-> <<"<", "d", "i", "v", ">", "V", "i", "s", "i", "t", " ", "<", "a", " ", "h", "r", "e", "f", "=", "\"", "h", "t", "t", "p", "s", ":", "/", "/", "g", "i", "t", "h", "u", "b", ".", "c", "o", "m", "\"", ">", "h", "t", "t", "p", "s", ":", "/", "/", "g", "i", "t", "h", "u", "b", ".", "c", "o", "m", "<", "/", "a", ">", "<", "/", "d", "i", "v", ">">>],
     [input |-> <<"S", "e", "a", "r", "c", "h", " ", "[", "h", "e", "r", "e", "]", "(", "h", "t", "t", "p", "s", ":", "/", "/", "e", "x", "a", "m", "p", "l", "e", ".", "c", "o", "m", "?", "q", "=", "t", "e", "s", "t", "&", "l", "a", "n", "g", "=", "e", "n", ")">>,
      expected |-> <<"<", "d", "i", "v", ">", "S", "e", "a", "r", "c", "h", " ", "<", "a", " ", "h", "r", "e", "f", "=", "\"", "h", "t", "t", "p", "s", ":", "/", "/", "e", "x", "a", "m", "p", "l", "e", ".", "c", "o", "m", "?", "q", "=", "t", "e", "s", "t", "&", "a", "m", "p", ";", "l", "a", "n", "g", "=", "e", "n", "\"", ">", "h", "e", "r", "e", "<", "/", "a", ">", "<", "/", "d", "i", "v", ">">>],
     [input |-> <<"R", "u", "n", " ", Backtick, "n", "p", "m", " ", "i", "n", "s", "t", "a", "l", "l", Backtick, " ", "t", "o", " ", "i", "n", "s", "t", "a", "l", "l">>,
      expected |-> <<"<", "d", "i", "v", ">", "R", "u", "n", " ", "<", "p", "r", "e", ">", "n", "p", "m", " ", "i", "n", "s", "t", "a", "l", "l", "<", "/", "p", "r", "e", ">", " ", "t", "o", " ", "i", "n", "s", "t", "a", "l", "l", "<", "/", "d", "i", "v", ">">>],
     [input |-> <<Backtick, Backtick, Backtick, "\n", "e", "c", "h", "o", " ", "h", "e", "l", "l", "o", "\n", Backtick, Backtick, Backtick>>,
      expected |-> <<"<", "p", "r", "e", ">", "e", "c", "h", "o", " ", "h", "e", "l", "l", "o", "\n", "<", "/", "p", "r", "e", ">">>],
     [input |-> <<Backtick, Backtick, Backtick, "b", "a", "s", "h", "\n", "e", "c", "h", "o", " ", "h", "e", "l", "l", "o", "\n", Backtick, Backtick, Backtick>>,
      expected |-> <<"<", "p", "r", "e", ">", "e", "c", "h", "o", " ", "h", "e", "l", "l", "o", "\n", "<", "/", "p", "r", "e", ">">>],
     [input |-> <<"U", "s", "e", " ", Backtick, "<", "d", "i", "v", ">", Backtick, " ", "t", "a", "g", "s">>,
      expected |-> <<"<", "d", "i", "v", ">", "U", "s", "e", " ", "<", "p", "r", "e", ">", "&", "l", "t", ";", "d", "i", "v", "&", "g", "t", ";", "<", "/", "p", "r", "e", ">", " ", "t", "a", "g", "s", "<", "/", "d", "i", "v", ">">>],
     [input |-> <<"-", " ", "I", "t", "e", "m", " ", "1", "\n", "-", " ", "I", "t", "e", "m", " ", "2", "\n", "-", " ", "I", "t", "e", "m", " ", "3">>,
      expected |-> <<"<", "u", "l", ">", "\n", "<", "l", "i", ">", "I", "t", "e", "m", " ", "1", "<", "/", "l", "i", ">", "\n", "<", "l", "i", ">", "I", "t", "e", "m", " ", "2", "<", "/", "l", "i", ">", "\n", "<", "l", "i", ">", "I", "t", "e", "m", " ", "3", "<", "/", "l", "i", ">", "\n", "<", "/", "u", "l", ">">>],
     [input |-> <<"1", ".", " ", "F", "i", "r", "s", "t", "\n", "2", ".", " ", "S", "e", "c", "o", "n", "d", "\n", "3", ".", " ", "T", "h", "i", "r", "d">>,
      expected |-> <<"<", "o", "l", ">", "\n", "<", "l", "i", ">", "F", "i", "r", "s", "t", "<", "/", "l", "i", ">", "\n", "<", "l", "i", ">", "S", "e", "c", "o", "n", "d", "<", "/", "l", "i", ">", "\n", "<", "l", "i", ">", "T", "h", "i", "r", "d", "<", "/", "l", "i", ">", "\n", "<", "/", "o", "l", ">">>],
     [input |-> <<"-", " ", "I", "t", "e", "m", " ", "1", "\n", " ", " ", "-", " ", "N", "e", "s", "t", "e", "d", " ", "1", "\n", " ", " ", "-", " ", "N", "e", "s", "t", "e", "d", " ", "2", "\n", "-", " ", "I", "t", "e", "m", " ", "2">>,
      expected |-> <<"<", "u", "l", ">", "\n", "<", "l", "i", ">", "I", "t", "e", "m", " ", "1", "\n", "<", "u", "l", ">", "\n", "<", "l", "i", ">", "N", "e", "s", "t", "e", "d", " ", "1", "<", "/", "l", "i", ">", "\n", "<", "l", "i", ">", "N", "e", "s", "t", "e", "d", " ", "2", "<", "/", "l", "i", ">", "\n", "<", "/", "u", "l", ">", "\n", "<", "/", "l", "i", ">", "\n", "<", "l", "i", ">", "I", "t", "e", "m", " ", "2", "<", "/", "l", "i", ">", "\n", "<", "/", "u", "l", ">">>],
     [input |-> <<"-", " ", "*", "*", "B", "o", "l", "d", "*", "*", " ", "i", "t", "e", "m", "\n", "-", " ", "*", "I", "t", "a", "l", "i", "c", "*", " ", "i", "t", "e", "m", "\n", "-", " ", "~", "~", "S", "t", "r", "i", "k", "e", "~", "~", " ", "i", "t", "e", "m">>,
      expected |-> <<"<", "u", "l", ">", "\n", "<", "l", "i", ">", "<", "s", "t", "r", "o", "n", "g", ">", "B", "o", "l", "d", "<", "/", "s", "t", "r", "o", "n", "g", ">", " ", "i", "t", "e", "m", "<", "/", "l", "i", ">", "\n", "<", "l", "i", ">", "<", "e", "m", ">", "I", "t", "a", "l", "i", "c", "<", "/", "e", "m", ">", " ", "i", "t", "e", "m", "<", "/", "l", "i", ">", "\n", "<", "l", "i", ">", "<", "s", "t", "r", "i", "k", "e", ">", "S", "t", "r", "i", "k", "e", "<", "/", "s", "t", "r", "i", "k", "e", ">", " ", "i", "t", "e", "m", "<", "/", "l", "i", ">", "\n", "<", "/", "u", "l", ">">>],
     [input |-> <<">", " ", "T", "h", "i", "s", " ", "i", "s", " ", "a", " ", "q", "u", "o", "t", "e">>,
      expected |-> <<"<", "b", "l", "o", "c", "k", "q", "u", "o", "t", "e", ">", "<", "d", "i", "v", ">", "T", "h", "i", "s", " ", "i", "s", " ", "a", " ", "q", "u", "o", "t", "e", "<", "/", "d", "i", "v", ">", "<", "/", "b", "l", "o", "c", "k", "q", "u", "o", "t", "e", ">">>],
     [input |-> <<">", " ", "L", "i", "n", "e", " ", "1", "\n", ">", " ", "L", "i", "n", "e", " ", "2">>,
      expected |-> <<"<", "b", "l", "o", "c", "k", "q", "u", "o", "t", "e", ">", "<", "d", "i", "v", ">", "L", "i", "n", "e", " ", "1", "<", "b", "r", ">", "L", "i", "n", "e", " ", "2", "<", "/", "d", "i", "v", ">", "<", "/", "b", "l", "o", "c", "k", "q", "u", "o", "t", "e", ">">>],
     [input |-> <<">", " ", "T", "h", "i", "s", " ", "h", "a", "s", " ", "*", "*", "b", "o", "l", "d", "*", "*", " ", "t", "e", "x", "t">>,
      expected |-> <<"<", "b", "l", "o", "c", "k", "q", "u", "o", "t", "e", ">", "<", "d", "i", "v", ">", "T", "h", "i", "s", " ", "h", "a", "s", " ", "<", "s", "t", "r", "o", "n", "g", ">", "b", "o", "l", "d", "<", "/", "s", "t", "r", "o", "n", "g", ">", " ", "t", "e", "x", "t", "<", "/", "d", "i", "v", ">", "<", "/", "b", "l", "o", "c", "k", "q", "u", "o", "t", "e", ">">>],
     [input |-> <<"P", "a", "r", "a", "g", "r", "a", "p", "h", " ", "1", "\n", "\n", "P", "a", "r", "a", "g", "r", "a", "p", "h", " ", "2">>,
      expected |-> <<"<", "d", "i", "v", ">", "P", "a", "r", "a", "g", "r", "a", "p", "h", " ", "1", "<", "/", "d", "i", "v", ">", "\n", "<", "d", "i", "v", ">", "P", "a", "r", "a", "g", "r", "a", "p", "h", " ", "2", "<", "/", "d", "i", "v", ">">>],
     [input |-> <<"#", " ", "T", "i", "t", "l", "e", "\n", "\n", "T", "h", "i", "s", " ", "i", "s", " ", "c", "o", "n", "t", "e", "n", "t">>,
      expected |-> <<"<", "h", "1", ">", "T", "i", "t", "l", "e", "<", "/", "h", "1", ">", "\n", "<", "d", "i", "v", ">", "T", "h", "i", "s", " ", "i", "s", " ", "c", "o", "n", "t", "e", "n", "t", "<", "/", "d", "i", "v", ">">>],
     [input |-> <<"L", "i", "n", "e", " ", "1", " ", " ", "\n", "L", "i", "n", "e", " ", "2">>,
      expected |-> <<"<", "d", "i", "v", ">", "L", "i", "n", "e", " ", "1", "<", "b", "r", ">", "L", "i", "n", "e", " ", "2", "<", "/", "d", "i", "v", ">">>],
     [input |-> <<"A", "b", "o", "v", "e", "\n", "\n", "-", "-", "-", "\n", "\n", "B", "e", "l", "o", "w">>,
      expected |-> <<"<", "d", "i", "v", ">", "A", "b", "o", "v", "e", "<", "/", "d", "i", "v", ">", "\n", "<", "b", "r", ">", "\n", "<", "d", "i", "v", ">", "B", "e", "l", "o", "w", "<", "/", "d", "i", "v", ">">>],
     [input |-> <<>>,
      expected |-> <<>>],
     [input |-> <<" ", " ", " ", "\n", "\n", " ", " ", " ">>,
      expected |-> <<>>],
     [input |-> <<"L", "e", "s", "s", " ", "t", "h", "a", "n", " ", "<", " ", "a", "n", "d", " ", "g", "r", "e", "a", "t", "e", "r", " ", "t", "h", "a", "n", " ", ">", " ", "a", "n", "d", " ", "&", " ", "a", "m", "p", "e", "r", "s", "a", "n", "d">>,
      expected |-> <<"<", "d", "i", "v", ">", "L", "e", "s", "s", " ", "t", "h", "a", "n", " ", "&", "l", "t", ";", " ", "a", "n", "d", " ", "g", "r", "e", "a", "t", "e", "r", " ", "t", "h", "a", "n", " ", "&", "g", "t", ";", " ", "a", "n", "d", " ", "&", "a", "m", "p", ";", " ", "a", "m", "p", "e", "r", "s", "a", "n", "d", "<", "/", "d", "i", "v", ">">>],
     [input |-> <<"T", "e", "x", "t", " ", "w", "i", "t", "h", " ", "<", "s", "p", "a", "n", ">", "r", "a", "w", " ", "H", "T", "M", "L", "<", "/", "s", "p", "a", "n", ">", " ", "i", "n", "s", "i", "d", "e">>,
      expected |-> <<"<", "d", "i", "v", ">", "T", "e", "x", "t", " ", "w", "i", "t", "h", " ", " ", "i", "n", "s", "i", "d", "e", "<", "/", "d", "i", "v", ">">>],
     [input |-> <<"w", "o", "r", "d", " ", "w", "o", "r", "d", " ", "w", "o", "r", "d", " ", "w", "o", "r", "d", " ", "w", "o", "r", "d", " ", "w", "o", "r", "d", " ", "w", "o", "r", "d", " ", "w", "o", "r", "d", " ", "w", "o", "r", "d", " ", "w", "o", "r", "d", " ", "w", "o", "r", "d", " ", "w", "o", "r", "d", " ", "w", "o", "r", "d", " ", "w", "o", "r", "d", " ", "w", "o", "r", "d", " ", "w", "o", "r", "d", " ", "w", "o", "r", "d", " ", "w", "o", "r", "d", " ", "w", "o", "r", "d", " ", "w", "o", "r", "d", " ", "w", "o", "r", "d", " ", "w", "o", "r", "d", " ", "w", "o", "r", "d", " ", "w", "o", "r", "d", " ", "w", "o", "r", "d", " ", "w", "o", "r", "d", " ", "w", "o", "r", "d", " ", "w", "o", "r", "d", " ", "w", "o", "r", "d", " ", "w", "o", "r", "d", " ", "w", "o", "r", "d", " ", "w", "o", "r", "d", " ", "w", "o", "r", "d", " ", "w", "o", "r", "d", " ", "w", "o", "r", "d", " ", "w", "o", "r", "d", " ", "w", "o", "r", "d", " ", "w", "o", "r", "d", " ", "w", "o", "r", "d", " ", "w", "o", "r", "d", " ", "w", "o", "r", "d", " ", "w", "o", "r", "d", " ", "w", "o", "r", "d", " ", "w", "o", "r", "d", " ", "w", "o", "r", "d", " ", "w", "o", "r", "d", " ", "w", "o", "r", "d", " ", "w", "o", "r", "d", " ", "w", "o", "r", "d", " ", "w", "o", "r", "d", " ", "w", "o", "r", "d", " ", "w", "o", "r", "d", " ", "w", "o", "r", "d", " ", "w", "o", "r", "d", " ", "w", "o", "r", "d", " ", "w", "o", "r", "d", " ", "w", "o", "r", "d", " ", "w", "o", "r", "d", " ", "w", "o", "r", "d", " ", "w", "o", "r", "d", " ", "w", "o", "r", "d", " ", "w", "o", "r", "d", " ", "w", "o", "r", "d", " ", "w", "o", "r", "d", " ", "w", "o", "r", "d", " ", "w", "o", "r", "d", " ", "w", "o", "r", "d", " ", "w", "o", "r", "d", " ", "w", "o", "r", "d", " ", "w", "o", "r", "d", " ", "w", "o", "r", "d", " ", "w", "o", "r", "d", " ", "w", "o", "r", "d", " ", "w", "o", "r", "d", " ", "w", "o", "r", "d", " ", "w", "o", "r", "d", " ", "w", "o", "r", "d", " ", "w", "o", "r", "d", " ", "w", "o", "r", "d", " ", "w", "o", "r", "d", " ", "w", "o", "r", "d", " ", "w", "o", "r", "d", " ", "w", "o", "r", "d", " ", "w", "o", "r", "d", " ", "w", "o", "r", "d", " ", "w", "o", "r", "d", " ", "w", "o", "r", "d", " ", "w", "o", "r", "d", " ", "w", "o", "r", "d", " ", "w", "o", "r", "d", " ", "w", "o", "r", "d", " ", "w", "o", "r", "d", " ", "w", "o", "r", "d", " ", "w", "o", "r", "d", " ", "w", "o", "r", "d", " ", "w", "o", "r", "d", " ", "w", "o", "r", "d", " ", "w", "o", "r", "d", " ", "w", "o", "r", "d", " ", "w", "o", "r", "d", " ">>,
      expected |-> <<"w", "o", "r", "d", " ", "w", "o", "r", "d", " ", "w", "o", "r", "d", " ", "w", "o", "r", "d", " ", "w", "o", "r", "d", " ", "w", "o", "r", "d", " ", "w", "o", "r", "d", " ", "w", "o", "r", "d", " ", "w", "o", "r", "d", " ", "w", "o", "r", "d", " ", "w", "o", "r", "d", " ", "w", "o", "r", "d", " ", "w", "o", "r", "d", " ", "w", "o", "r", "d", " ", "w", "o", "r", "d", " ", "w", "o", "r", "d", " ", "w", "o", "r", "d", " ", "w", "o", "r", "d", " ", "w", "o", "r", "d", " ", "w", "o", "r", "d", " ", "w", "o", "r", "d", " ", "w", "o", "r", "d", " ", "w", "o", "r", "d", " ", "w", "o", "r", "d", " ", "w", "o", "r", "d", " ", "w", "o", "r", "d", " ", "w", "o", "r", "d", " ", "w", "o", "r", "d", " ", "w", "o", "r", "d", " ", "w", "o", "r", "d", " ", "w", "o", "r", "d", " ", "w", "o", "r", "d", " ", "w", "o", "r", "d", " ", "w", "o", "r", "d", " ", "w", "o", "r", "d", " ", "w", "o", "r", "d", " ", "w", "o", "r", "d", " ", "w", "o", "r", "d", " ", "w", "o", "r", "d", " ", "w", "o", "r", "d", " ", "w", "o", "r", "d", " ", "w", "o", "r", "d", " ", "w", "o", "r", "d", " ", "w", "o", "r", "d", " ", "w", "o", "r", "d", " ", "w", "o", "r", "d", " ", "w", "o", "r", "d", " ", "w", "o", "r", "d", " ", "w", "o", "r", "d", " ", "w", "o", "r", "d", " ", "w", "o", "r", "d", " ", "w", "o", "r", "d", " ", "w", "o", "r", "d", " ", "w", "o", "r", "d", " ", "w", "o", "r", "d", " ", "w", "o", "r", "d", " ", "w", "o", "r", "d", " ", "w", "o", "r", "d", " ", "w", "o", "r", "d", " ", "w", "o", "r", "d", " ", "w", "o", "r", "d", " ", "w", "o", "r", "d", " ", "w", "o", "r", "d", " ", "w", "o", "r", "d", " ", "w", "o", "r", "d", " ", "w", "o", "r", "d", " ", "w", "o", "r", "d", " ", "w", "o", "r", "d", " ", "w", "o", "r", "d", " ", "w", "o", "r", "d", " ", "w", "o", "r", "d", " ", "w", "o", "r", "d", " ", "w", "o", "r", "d", " ", "w", "o", "r", "d", " ", "w", "o", "r", "d", " ", "w", "o", "r", "d", " ", "w", "o", "r", "d", " ", "w", "o", "r", "d", " ", "w", "o", "r", "d", " ", "w", "o", "r", "d", " ", "w", "o", "r", "d", " ", "w", "o", "r", "d", " ", "w", "o", "r", "d", " ", "w", "o", "r", "d", " ", "w", "o", "r", "d", " ", "w", "o", "r", "d", " ", "w", "o", "r", "d", " ", "w", "o", "r", "d", " ", "w", "o", "r", "d", " ", "w", "o", "r", "d", " ", "w", "o", "r", "d", " ", "w", "o", "r", "d", " ", "w", "o", "r", "d", " ", "w", "o", "r", "d", " ", "w", "o", "r", "d", " ", "w", "o", "r", "d", " ", "w", "o", "r", "d", " ", "w", "o", "r", "d", " ", "w", "o", "r", "d", " ", "w", "o", "r", "d">>],
     [input |-> <<"#", " ", "P", "r", "o", "j", "e", "c", "t", " ", "T", "i", "t", "l", "e", "\n", "\n", "T", "h", "i", "s", " ", "i", "s", " ", "a", " ", "*", "*", "d", "e", "s", "c", "r", "i", "p", "t", "i", "o", "n", "*", "*", " ", "w", "i", "t", "h", " ", "*", "v", "a", "r", "i", "o", "u", "s", "*", " ", "f", "o", "r", "m", "a", "t", "t", "i", "n", "g", ".", "\n", "\n", "#", "#", " ", "F", "e", "a", "t", "u", "r", "e", "s", "\n", "\n", "-", " ", "F", "a", "s", "t", " ", "p", "e", "r", "f", "o", "r", "m", "a", "n", "c", "e", "\n", "-", " ", "E", "a", "s", "y", " ", "t", "o", " ", "u", "s", "e", "\n", "-", " ", "W", "e", "l", "l", " ", "d", "o", "c", "u", "m", "e", "n", "t", "e", "d", "\n", "\n", "H", "e", "r", "e", "'", "s", " ", "s", "o", "m", "e", " ", Backtick, "c", "o", "d", "e", Backtick, " ", "a", "n", "d", " ", "a", " ", "[", "l", "i", "n", "k", "]", "(", "h", "t", "t", "p", "s", ":", "/", "/", "e", "x", "a", "m", "p", "l", "e", ".", "c", "o", "m", ")", ".", "\n", "\n", ">", " ", "I", "m", "p", "o", "r", "t", "a", "n", "t", " ", "n", "o", "t", "e", ":", " ", "T", "h", "i", "s", " ", "i", "s", " ", "~", "~", "d", "e", "p", "r", "e", "c", "a", "t", "e", "d", "~", "~", " ", "u", "p", "d", "a", "t", "e", "d", ".", "\n", "\n", "1", ".", " ", "F", "i", "r", "s", "t", " ", "s", "t", "e", "p", "\n", "2", ".", " ", "S", "e", "c", "o", "n", "d", " ", "s", "t", "e", "p", "\n", "3", ".", " ", "T", "h", "i", "r", "d", " ", "s", "t", "e", "p">>,
      expected |-> <<"<", "h", "1", ">", "P", "r", "o", "j", "e", "c", "t", " ", "T", "i", "t", "l", "e", "<", "/", "h", "1", ">", "\n", "<", "d", "i", "v", ">", "T", "h", "i", "s", " ", "i", "s", " ", "a", " ", "<", "s", "t", "r", "o", "n", "g", ">", "d", "e", "s", "c", "r", "i", "p", "t", "i", "o", "n", "<", "/", "s", "t", "r", "o", "n", "g", ">", " ", "w", "i", "t", "h", " ", "<", "e", "m", ">", "v", "a", "r", "i", "o", "u", "s", "<", "/", "e", "m", ">", " ", "f", "o", "r", "m", "a", "t", "t", "i", "n", "g", ".", "<", "/", "d", "i", "v", ">", "\n", "<", "h", "1", ">", "F", "e", "a", "t", "u", "r", "e", "s", "<", "/", "h", "1", ">", "\n", "<", "u", "l", ">", "\n", "<", "l", "i", ">", "F", "a", "s", "t", " ", "p", "e", "r", "f", "o", "r", "m", "a", "n", "c", "e", "<", "/", "l", "i", ">", "\n", "<", "l", "i", ">", "E", "a", "s", "y", " ", "t", "o", " ", "u", "s", "e", "<", "/", "l", "i", ">", "\n", "<", "l", "i", ">", "W", "e", "l", "l", " ", "d", "o", "c", "u", "m", "e", "n", "t", "e", "d", "<", "/", "l", "i", ">", "\n", "<", "/", "u", "l", ">", "\n", "<", "d", "i", "v", ">", "H", "e", "r", "e", "'", "s", " ", "s", "o", "m", "e", " ", "<", "p", "r", "e", ">", "c", "o", "d", "e", "<", "/", "p", "r", "e", ">", " ", "a", "n", "d", " ", "a", " ", "<", "a", " ", "h", "r", "e", "f", "=", "\"", "h", "t", "t", "p", "s", ":", "/", "/", "e", "x", "a", "m", "p", "l", "e", ".", "c", "o", "m", "\"", ">", "l", "i", "n", "k", "<", "/", "a", ">", ".", "<", "/", "d", "i", "v", ">", "\n", "<", "b", "l", "o", "c", "k", "q", "u", "o", "t", "e", ">", "<", "d", "i", "v", ">", "I", "m", "p", "o", "r", "t", "a", "n", "t", " ", "n", "o", "t", "e", ":", " ", "T", "h", "i", "s", " ", "i", "s", " ", "<", "s", "t", "r", "i", "k", "e", ">", "d", "e", "p", "r", "e", "c", "a", "t", "e", "d", "<", "/", "s", "t", "r", "i", "k", "e", ">", " ", "u", "p", "d", "a", "t", "e", "d", ".", "<", "/", "d", "i", "v", ">", "<", "/", "b", "l", "o", "c", "k", "q", "u", "o", "t", "e", ">", "\n", "<", "o", "l", ">", "\n", "<", "l", "i", ">", "F", "i", "r", "s", "t", " ", "s", "t", "e", "p", "<", "/", "l", "i", ">", "\n", "<", "l", "i", ">", "S", "e", "c", "o", "n", "d", " ", "s", "t", "e", "p", "<", "/", "l", "i", ">", "\n", "<", "l", "i", ">", "T", "h", "i", "r", "d", " ", "s", "t", "e", "p", "<", "/", "l", "i", ">", "\n", "<", "/", "o", "l", ">">>]}

\* c.md.Convert: what goldmark, built as NewConverter builds it (GFM,
\* heading ids, XHTML, hard wraps, raw HTML omitted), writes for a source.
\* For the sources of TestCases the HTML is the one from which postProcessHTML
\* makes the result the test asserts (TestMarkdownToRichText below).

GoldmarkOutput ==
    {<<<<"T", "h", "i", "s", " ", "i", "s", " ", "*", "*", "b", "o", "l", "d", "*", "*", " ", "t", "e", "x", "t">>,
       <<"<", "p", ">", "T", "h", "i", "s", " ", "i", "s", " ", "<", "s", "t", "r", "o", "n", "g", ">", "b", "o", "l", "d", "<", "/", "s", "t", "r", "o", "n", "g", ">", " ", "t", "e", "x", "t", "<", "/", "p", ">", "\n">>>>,
     <<<<"T", "h", "i", "s", " ", "i", "s", " ", "*", "i", "t", "a", "l", "i", "c", "*", " ", "t", "e", "x", "t">>,
       <<"<", "p", ">", "T", "h", "i", "s", " ", "i", "s", " ", "<", "e", "m", ">", "i", "t", "a", "l", "i", "c", "<", "/", "e", "m", ">", " ", "t", "e", "x", "t", "<", "/", "p", ">", "\n">>>>,
     <<<<"T", "h", "i", "s", " ", "i", "s", " ", "~", "~", "s", "t", "r", "i", "k", "e", "t", "h", "r", "o", "u", "g", "h", "~", "~", " ", "t", "e", "x", "t">>,
       <<"<", "p", ">", "T", "h", "i", "s", " ", "i", "s", " ", "<", "d", "e", "l", ">", "s", "t", "r", "i", "k", "e", "t", "h", "r", "o", "u", "g", "h", "<", "/", "d", "e", "l", ">", " ", "t", "e", "x", "t", "<", "/", "p", ">", "\n">>>>,
     <<<<"T", "h", "i", "s", " ", "h", "a", "s", " ", "*", "*", "b", "o", "l", "d", "*", "*", ",", " ", "*", "i", "t", "a", "l", "i", "c", "*", ",", " ", "a", "n", "d", " ", "~", "~", "s", "t", "r", "i", "k", "e", "~", "~", " ", "t", "e", "x", "t">>,
       <<"<", "p", ">", "T", "h", "i", "s", " ", "h", "a", "s", " ", "<", "s", "t", "r", "o", "n", "g", ">", "b", "o", "l", "d", "<", "/", "s", "t", "r", "o", "n", "g", ">", ",", " ", "<", "e", "m", ">", "i", "t", "a", "l", "i", "c", "<", "/", "e", "m", ">", ",", " ", "a", "n", "d", " ", "<", "d", "e", "l", ">", "s", "t", "r", "i", "k", "e", "<", "/", "d", "e", "l", ">", " ", "t", "e", "x", "t", "<", "/", "p", ">", "\n">>>>,
     <<<<"#", " ", "H", "e", "a", "d", "i", "n", "g", " ", "1">>,
       <<"<", "h", "1", " ", "i", "d", "=", "\"", "h", "e", "a", "d", "i", "n", "g", "-", "1", "\"", ">", "H", "e", "a", "d", "i", "n", "g", " ", "1", "<", "/", "h", "1", ">", "\n">>>>,
     <<<<"#", "#", " ", "H", "e", "a", "d", "i", "n", "g", " ", "2">>,
       <<"<", "h", "2", " ", "i", "d", "=", "\"", "h", "e", "a", "d", "i", "n", "g", "-", "2", "\"", ">", "H", "e", "a", "d", "i", "n", "g", " ", "2", "<", "/", "h", "2", ">", "\n">>>>,
     <<<<"#", "#", "#", " ", "H", "e", "a", "d", "i", "n", "g", " ", "3">>,
       <<"<", "h", "3", " ", "i", "d", "=", "\"", "h", "e", "a", "d", "i", "n", "g", "-", "3", "\"", ">", "H", "e", "a", "d", "i", "n", "g", " ", "3", "<", "/", "h", "3", ">", "\n">>>>,
     <<<<"C", "h", "e", "c", "k", " ", "o", "u", "t", " ", "[", "G", "i", "t", "H", "u", "b", "]", "(", "h", "t", "t", "p", "s", ":", "/", "/", "g", "i", "t", "h", "u", "b", ".", "c", "o", "m", ")">>,
       <<"<", "p", ">", "C", "h", "e", "c", "k", " ", "o", "u", "t", " ", "<", "a", " ", "h", "r", "e", "f", "=", "\"", "h", "t", "t", "p", "s", ":", "/", "/", "g", "i", "t", "h", "u", "b", ".", "c", "o", "m", "\"", ">", "G", "i", "t", "H", "u", "b", "<", "/", "a", ">", "<", "/", "p", ">", "\n">>>>,
     <<<<"V", "i", "s", "i", "t", " ", "<", "h", "t", "t", "p", "s", ":", "/", "/", "g", "i", "t", "h", "u", "b", ".", "c", "o", "m", ">">>,
       <<"<", "p", ">", "V", "i", "s", "i", "t", " ", "<", "a", " ", "h", "r", "e", "f", "=", "\"", "h", "t", "t", "p", "s", ":", "/", "/", "g", "i", "t", "h", "u", "b", ".", "c", "o", "m", "\"", ">", "h", "t", "t", "p", "s", ":", "/", "/", "g", "i", "t", "h", "u", "b", ".", "c", "o", "m", "<", "/", "a", ">", "<", "/", "p", ">", "\n">>>>,
     <<<<"S", "e", "a", "r", "c", "h", " ", "[", "h", "e", "r", "e", "]", "(", "h", "t", "t", "p", "s", ":", "/", "/", "e", "x", "a", "m", "p", "l", "e", ".", "c", "o", "m", "?", "q", "=", "t", "e", "s", "t", "&", "l", "a", "n", "g", "=", "e", "n", ")">>,
       <<"<", "p", ">", "S", "e", "a", "r", "c", "h", " ", "<", "a", " ", "h", "r", "e", "f", "=", "\"", "h", "t", "t", "p", "s", ":", "/", "/", "e", "x", "a", "m", "p", "l", "e", ".", "c", "o", "m", "?", "q", "=", "t", "e", "s", "t", "&", "a", "m", "p", ";", "l", "a", "n", "g", "=", "e", "n", "\"", ">", "h", "e", "r", "e", "<", "/", "a", ">", "<", "/", "p", ">", "\n">>>>,
     <<<<"R", "u", "n", " ", Backtick, "n", "p", "m", " ", "i", "n", "s", "t", "a", "l", "l", Backtick, " ", "t", "o", " ", "i", "n", "s", "t", "a", "l", "l">>,
       <<"<", "p", ">", "R", "u", "n", " ", "<", "c", "o", "d", "e", ">", "n", "p", "m", " ", "i", "n", "s", "t", "a", "l", "l", "<", "/", "c", "o", "d", "e", ">", " ", "t", "o", " ", "i", "n", "s", "t", "a", "l", "l", "<", "/", "p", ">", "\n">>>>,
     <<<<Backtick, Backtick, Backtick, "\n", "e", "c", "h", "o", " ", "h", "e", "l", "l", "o", "\n", Backtick, Backtick, Backtick>>,
       <<"<", "p", "r", "e", ">", "<", "c", "o", "d", "e", ">", "e", "c", "h", "o", " ", "h", "e", "l", "l", "o", "\n", "<", "/", "c", "o", "d", "e", ">", "<", "/", "p", "r", "e", ">", "\n">>>>,
     <<<<Backtick, Backtick, Backtick, "b", "a", "s", "h", "\n", "e", "c", "h", "o", " ", "h", "e", "l", "l", "o", "\n", Backtick, Backtick, Backtick>>,
       <<"<", "p", "r", "e", ">", "<", "c", "o", "d", "e", " ", "c", "l", "a", "s", "s", "=", "\"", "l", "a", "n", "g", "u", "a", "g", "e", "-", "b", "a", "s", "h", "\"", ">", "e", "c", "h", "o", " ", "h", "e", "l", "l", "o", "\n", "<", "/", "c", "o", "d", "e", ">", "<", "/", "p", "r", "e", ">", "\n">>>>,
     <<<<"U", "s", "e", " ", Backtick, "<", "d", "i", "v", ">", Backtick, " ", "t", "a", "g", "s">>,
       <<"<", "p", ">", "U", "s", "e", " ", "<", "c", "o", "d", "e", ">", "&", "l", "t", ";", "d", "i", "v", "&", "g", "t", ";", "<", "/", "c", "o", "d", "e", ">", " ", "t", "a", "g", "s", "<", "/", "p", ">", "\n">>>>,
     <<<<"-", " ", "I", "t", "e", "m", " ", "1", "\n", "-", " ", "I", "t", "e", "m", " ", "2", "\n", "-", " ", "I", "t", "e", "m", " ", "3">>,
       <<"<", "u", "l", ">", "\n", "<", "l", "i", ">", "I", "t", "e", "m", " ", "1", "<", "/", "l", "i", ">", "\n", "<", "l", "i", ">", "I", "t", "e", "m", " ", "2", "<", "/", "l", "i", ">", "\n", "<", "l", "i", ">", "I", "t", "e", "m", " ", "3", "<", "/", "l", "i", ">", "\n", "<", "/", "u", "l", ">", "\n">>>>,
     <<<<"1", ".", " ", "F", "i", "r", "s", "t", "\n", "2", ".", " ", "S", "e", "c", "o", "n", "d", "\n", "3", ".", " ", "T", "h", "i", "r", "d">>,
       <<"<", "o", "l", ">", "\n", "<", "l", "i", ">", "F", "i", "r", "s", "t", "<", "/", "l", "i", ">", "\n", "<", "l", "i", ">", "S", "e", "c", "o", "n", "d", "<", "/", "l", "i", ">", "\n", "<", "l", "i", ">", "T", "h", "i", "r", "d", "<", "/", "l", "i", ">", "\n", "<", "/", "o", "l", ">", "\n">>>>,
     <<<<"-", " ", "I", "t", "e", "m", " ", "1", "\n", " ", " ", "-", " ", "N", "e", "s", "t", "e", "d", " ", "1", "\n", " ", " ", "-", " ", "N", "e", "s", "t", "e", "d", " ", "2", "\n", "-", " ", "I", "t", "e", "m", " ", "2">>,
       <<"<", "u", "l", ">", "\n", "<", "l", "i", ">", "I", "t", "e", "m", " ", "1", "\n", "<", "u", "l", ">", "\n", "<", "l", "i", ">", "N", "e", "s", "t", "e", "d", " ", "1", "<", "/", "l", "i", ">", "\n", "<", "l", "i", ">", "N", "e", "s", "t", "e", "d", " ", "2", "<", "/", "l", "i", ">", "\n", "<", "/", "u", "l", ">", "\n", "<", "/", "l", "i", ">", "\n", "<", "l", "i", ">", "I", "t", "e", "m", " ", "2", "<", "/", "l", "i", ">", "\n", "<", "/", "u", "l", ">", "\n">>>>,
     <<<<"-", " ", "*", "*", "B", "o", "l", "d", "*", "*", " ", "i", "t", "e", "m", "\n", "-", " ", "*", "I", "t", "a", "l", "i", "c", "*", " ", "i", "t", "e", "m", "\n", "-", " ", "~", "~", "S", "t", "r", "i", "k", "e", "~", "~", " ", "i", "t", "e", "m">>,
       <<"<", "u", "l", ">", "\n", "<", "l", "i", ">", "<", "s", "t", "r", "o", "n", "g", ">", "B", "o", "l", "d", "<", "/", "s", "t", "r", "o", "n", "g", ">", " ", "i", "t", "e", "m", "<", "/", "l", "i", ">", "\n", "<", "l", "i", ">", "<", "e", "m", ">", "I", "t", "a", "l", "i", "c", "<", "/", "e", "m", ">", " ", "i", "t", "e", "m", "<", "/", "l", "i", ">", "\n", "<", "l", "i", ">", "<", "d", "e", "l", ">", "S", "t", "r", "i", "k", "e", "<", "/", "d", "e", "l", ">", " ", "i", "t", "e", "m", "<", "/", "l", "i", ">", "\n", "<", "/", "u", "l", ">", "\n">>>>,
     <<<<">", " ", "T", "h", "i", "s", " ", "i", "s", " ", "a", " ", "q", "u", "o", "t", "e">>,
       <<"<", "b", "l", "o", "c", "k", "q", "u", "o", "t", "e", ">", "\n", "<", "p", ">", "T", "h", "i", "s", " ", "i", "s", " ", "a", " ", "q", "u", "o", "t", "e", "<", "/", "p", ">", "\n", "<", "/", "b", "l", "o", "c", "k", "q", "u", "o", "t", "e", ">", "\n">>>>,
     <<<<">", " ", "L", "i", "n", "e", " ", "1", "\n", ">", " ", "L", "i", "n", "e", " ", "2">>,
       <<"<", "b", "l", "o", "c", "k", "q", "u", "o", "t", "e", ">", "\n", "<", "p", ">", "L", "i", "n", "e", " ", "1", "<", "b", "r", " ", "/", ">", "\n", "L", "i", "n", "e", " ", "2", "<", "/", "p", ">", "\n", "<", "/", "b", "l", "o", "c", "k", "q", "u", "o", "t", "e", ">", "\n">>>>,
     <<<<">", " ", "T", "h", "i", "s", " ", "h", "a", "s", " ", "*", "*", "b", "o", "l", "d", "*", "*", " ", "t", "e", "x", "t">>,
       <<"<", "b", "l", "o", "c", "k", "q", "u", "o", "t", "e", ">", "\n", "<", "p", ">", "T", "h", "i", "s", " ", "h", "a", "s", " ", "<", "s", "t", "r", "o", "n", "g", ">", "b", "o", "l", "d", "<", "/", "s", "t", "r", "o", "n", "g", ">", " ", "t", "e", "x", "t", "<", "/", "p", ">", "\n", "<", "/", "b", "l", "o", "c", "k", "q", "u", "o", "t", "e", ">", "\n">>>>,
     <<<<"P", "a", "r", "a", "g", "r", "a", "p", "h", " ", "1", "\n", "\n", "P", "a", "r", "a", "g", "r", "a", "p", "h", " ", "2">>,
       <<"<", "p", ">", "P", "a", "r", "a", "g", "r", "a", "p", "h", " ", "1", "<", "/", "p", ">", "\n", "<", "p", ">", "P", "a", "r", "a", "g", "r", "a", "p", "h", " ", "2", "<", "/", "p", ">", "\n">>>>,
     <<<<"#", " ", "T", "i", "t", "l", "e", "\n", "\n", "T", "h", "i", "s", " ", "i", "s", " ", "c", "o", "n", "t", "e", "n", "t">>,
       <<"<", "h", "1", " ", "i", "d", "=", "\"", "t", "i", "t", "l", "e", "\"", ">", "T", "i", "t", "l", "e", "<", "/", "h", "1", ">", "\n", "<", "p", ">", "T", "h", "i", "s", " ", "i", "s", " ", "c", "o", "n", "t", "e", "n", "t", "<", "/", "p", ">", "\n">>>>,
     <<<<"L", "i", "n", "e", " ", "1", " ", " ", "\n", "L", "i", "n", "e", " ", "2">>,
       <<"<", "p", ">", "L", "i", "n", "e", " ", "1", "<", "b", "r", " ", "/", ">", "\n", "L", "i", "n", "e", " ", "2", "<", "/", "p", ">", "\n">>>>,
     <<<<"A", "b", "o", "v", "e", "\n", "\n", "-", "-", "-", "\n", "\n", "B", "e", "l", "o", "w">>,
       <<"<", "p", ">", "A", "b", "o", "v", "e", "<", "/", "p", ">", "\n", "<", "h", "r", " ", "/", ">", "\n", "<", "p", ">", "B", "e", "l", "o", "w", "<", "/", "p", ">", "\n">>>>,
     <<<<"L", "e", "s", "s", " ", "t", "h", "a", "n", " ", "<", " ", "a", "n", "d", " ", "g", "r", "e", "a", "t", "e", "r", " ", "t", "h", "a", "n", " ", ">", " ", "a", "n", "d", " ", "&", " ", "a", "m", "p", "e", "r", "s", "a", "n", "d">>,
       <<"<", "p", ">", "L", "e", "s", "s", " ", "t", "h", "a", "n", " ", "&", "l", "t", ";", " ", "a", "n", "d", " ", "g", "r", "e", "a", "t", "e", "r", " ", "t", "h", "a", "n", " ", "&", "g", "t", ";", " ", "a", "n", "d", " ", "&", "a", "m", "p", ";", " ", "a", "m", "p", "e", "r", "s", "a", "n", "d", "<", "/", "p", ">", "\n">>>>,
     <<<<"T", "e", "x", "t", " ", "w", "i", "t", "h", " ", "<", "s", "p", "a", "n", ">", "r", "a", "w", " ", "H", "T", "M", "L", "<", "/", "s", "p", "a", "n", ">", " ", "i", "n", "s", "i", "d", "e">>,
       <<"<", "p", ">", "T", "e", "x", "t", " ", "w", "i", "t", "h", " ", "<", "!", "-", "-", " ", "r", "a", "w", " ", "H", "T", "M", "L", " ", "o", "m", "i", "t", "t", "e", "d", " ", "-", "-", ">", "r", "a", "w", " ", "H", "T", "M", "L", "<", "!", "-", "-", " ", "r", "a", "w", " ", "H", "T", "M", "L", " ", "o", "m", "i", "t", "t", "e", "d", " ", "-", "-", ">", " ", "i", "n", "s", "i", "d", "e", "<", "/", "p", ">", "\n">>>>,
     <<<<"#", " ", "P", "r", "o", "j", "e", "c", "t", " ", "T", "i", "t", "l", "e", "\n", "\n", "T", "h", "i", "s", " ", "i", "s", " ", "a", " ", "*", "*", "d", "e", "s", "c", "r", "i", "p", "t", "i", "o", "n", "*", "*", " ", "w", "i", "t", "h", " ", "*", "v", "a", "r", "i", "o", "u", "s", "*", " ", "f", "o", "r", "m", "a", "t", "t", "i", "n", "g", ".", "\n", "\n", "#", "#", " ", "F", "e", "a", "t", "u", "r", "e", "s", "\n", "\n", "-", " ", "F", "a", "s", "t", " ", "p", "e", "r", "f", "o", "r", "m", "a", "n", "c", "e", "\n", "-", " ", "E", "a", "s", "y", " ", "t", "o", " ", "u", "s", "e", "\n", "-", " ", "W", "e", "l", "l", " ", "d", "o", "c", "u", "m", "e", "n", "t", "e", "d", "\n", "\n", "H", "e", "r", "e", "'", "s", " ", "s", "o", "m", "e", " ", Backtick, "c", "o", "d", "e", Backtick, " ", "a", "n", "d", " ", "a", " ", "[", "l", "i", "n", "k", "]", "(", "h", "t", "t", "p", "s", ":", "/", "/", "e", "x", "a", "m", "p", "l", "e", ".", "c", "o", "m", ")", ".", "\n", "\n", ">", " ", "I", "m", "p", "o", "r", "t", "a", "n", "t", " ", "n", "o", "t", "e", ":", " ", "T", "h", "i", "s", " ", "i", "s", " ", "~", "~", "d", "e", "p", "r", "e", "c", "a", "t", "e", "d", "~", "~", " ", "u", "p", "d", "a", "t", "e", "d", ".", "\n", "\n", "1", ".", " ", "F", "i", "r", "s", "t", " ", "s", "t", "e", "p", "\n", "2", ".", " ", "S", "e", "c", "o", "n", "d", " ", "s", "t", "e", "p", "\n", "3", ".", " ", "T", "h", "i", "r", "d", " ", "s", "t", "e", "p">>,
       <<"<", "h", "1", " ", "i", "d", "=", "\"", "p", "r", "o", "j", "e", "c", "t", "-", "t", "i", "t", "l", "e", "\"", ">", "P", "r", "o", "j", "e", "c", "t", " ", "T", "i", "t", "l", "e", "<", "/", "h", "1", ">", "\n", "<", "p", ">", "T", "h", "i", "s", " ", "i", "s", " ", "a", " ", "<", "s", "t", "r", "o", "n", "g", ">", "d", "e", "s", "c", "r", "i", "p", "t", "i", "o", "n", "<", "/", "s", "t", "r", "o", "n", "g", ">", " ", "w", "i", "t", "h", " ", "<", "e", "m", ">", "v", "a", "r", "i", "o", "u", "s", "<", "/", "e", "m", ">", " ", "f", "o", "r", "m", "a", "t", "t", "i", "n", "g", ".", "<", "/", "p", ">", "\n", "<", "h", "2", " ", "i", "d", "=", "\"", "f", "e", "a", "t", "u", "r", "e", "s", "\"", ">", "F", "e", "a", "t", "u", "r", "e", "s", "<", "/", "h", "2", ">", "\n", "<", "u", "l", ">", "\n", "<", "l", "i", ">", "F", "a", "s", "t", " ", "p", "e", "r", "f", "o", "r", "m", "a", "n", "c", "e", "<", "/", "l", "i", ">", "\n", "<", "l", "i", ">", "E", "a", "s", "y", " ", "t", "o", " ", "u", "s", "e", "<", "/", "l", "i", ">", "\n", "<", "l", "i", ">", "W", "e", "l", "l", " ", "d", "o", "c", "u", "m", "e", "n", "t", "e", "d", "<", "/", "l", "i", ">", "\n", "<", "/", "u", "l", ">", "\n", "<", "p", ">", "H", "e", "r", "e", "'", "s", " ", "s", "o", "m", "e", " ", "<", "c", "o", "d", "e", ">", "c", "o", "d", "e", "<", "/", "c", "o", "d", "e", ">", " ", "a", "n", "d", " ", "a", " ", "<", "a", " ", "h", "r", "e", "f", "=", "\"", "h", "t", "t", "p", "s", ":", "/", "/", "e", "x", "a", "m", "p", "l", "e", ".", "c", "o", "m", "\"", ">", "l", "i", "n", "k", "<", "/", "a", ">", ".", "<", "/", "p", ">", "\n", "<", "b", "l", "o", "c", "k", "q", "u", "o", "t", "e", ">", "\n", "<", "p", ">", "I", "m", "p", "o", "r", "t", "a", "n", "t", " ", "n", "o", "t", "e", ":", " ", "T", "h", "i", "s", " ", "i", "s", " ", "<", "d", "e", "l", ">", "d", "e", "p", "r", "e", "c", "a", "t", "e", "d", "<", "/", "d", "e", "l", ">", " ", "u", "p", "d", "a", "t", "e", "d", ".", "<", "/", "p", ">", "\n", "<", "/", "b", "l", "o", "c", "k", "q", "u", "o", "t", "e", ">", "\n", "<", "o", "l", ">", "\n", "<", "l", "i", ">", "F", "i", "r", "s", "t", " ", "s", "t", "e", "p", "<", "/", "l", "i", ">", "\n", "<", "l", "i", ">", "S", "e", "c", "o", "n", "d", " ", "s", "t", "e", "p", "<", "/", "l", "i", ">", "\n", "<", "l", "i", ">", "T", "h", "i", "r", "d", " ", "s", "t", "e", "p", "<", "/", "l", "i", ">", "\n", "<", "/", "o", "l", ">", "\n">>>>,
     <<<<"*", "*", "a", "*", "*">>,
       <<"<", "p", ">", "<", "s", "t", "r", "o", "n", "g", ">", "a", "<", "/", "s", "t", "r", "o", "n", "g", ">", "<", "/", "p", ">", "\n">>>>,
     <<<<"a", " ", "*", " ", "b">>,
       <<"<", "p", ">", "a", " ", "*", " ", "b", "<", "/", "p", ">", "\n">>>>,
     <<<<"~", "~", "a", "~", "~">>,
       <<"<", "p", ">", "<", "d", "e", "l", ">", "a", "<", "/", "d", "e", "l", ">", "<", "/", "p", ">", "\n">>>>,
     <<<<"a", "~", "~", "b">>,
       <<"<", "p", ">", "a", "~", "~", "b", "<", "/", "p", ">", "\n">>>>,
     <<<<Backtick, "c", Backtick>>,
       <<"<", "p", ">", "<", "c", "o", "d", "e", ">", "c", "<", "/", "c", "o", "d", "e", ">", "<", "/", "p", ">", "\n">>>>,
     <<<<"[", "x", "]", "(", "u", ")">>,
       <<"<", "p", ">", "<", "a", " ", "h", "r", "e", "f", "=", "\"", "u", "\"", ">", "x", "<", "/", "a", ">", "<", "/", "p", ">", "\n">>>>,
     <<<<"[", "x", "]", "(", "u", " ", "\"", "t", "\"", ")">>,
       <<"<", "p", ">", "<", "a", " ", "h", "r", "e", "f", "=", "\"", "u", "\"", " ", "t", "i", "t", "l", "e", "=", "\"", "t", "\"", ">", "x", "<", "/", "a", ">", "<", "/", "p", ">", "\n">>>>,
     <<<<"!", "[", "i", "]", "(", "s", ")">>,
       <<"<", "p", ">", "<", "i", "m", "g", " ", "s", "r", "c", "=", "\"", "s", "\"", " ", "a", "l", "t", "=", "\"", "i", "\"", " ", "/", ">", "<", "/", "p", ">", "\n">>>>,
     <<<<"a", " ", "[", "b">>,
       <<"<", "p", ">", "a", " ", "[", "b", "<", "/", "p", ">", "\n">>>>,
     <<<<"a", "]", " ", "b">>,
       <<"<", "p", ">", "a", "]", " ", "b", "<", "/", "p", ">", "\n">>>>,
     <<<<"a", " ", "(", "b">>,
       <<"<", "p", ">", "a", " ", "(", "b", "<", "/", "p", ">", "\n">>>>,
     <<<<"a", ")", " ", "b">>,
       <<"<", "p", ">", "a", ")", " ", "b", "<", "/", "p", ">", "\n">>>>,
     <<<<"a", " ", "#", " ", "b">>,
       <<"<", "p", ">", "a", " ", "#", " ", "b", "<", "/", "p", ">", "\n">>>>,
     <<<<"#", " ", "T">>,
       <<"<", "h", "1", " ", "i", "d", "=", "\"", "t", "\"", ">", "T", "<", "/", "h", "1", ">", "\n">>>>,
     <<<<"a", " ", ">", " ", "b">>,
       <<"<", "p", ">", "a", " ", "&", "g", "t", ";", " ", "b", "<", "/", "p", ">", "\n">>>>,
     <<<<"a", " ", "<", " ", "b">>,
       <<"<", "p", ">", "a", " ", "&", "l", "t", ";", " ", "b", "<", "/", "p", ">", "\n">>>>,
     <<<<"a", " ", "&", " ", "b">>,
       <<"<", "p", ">", "a", " ", "&", "a", "m", "p", ";", " ", "b", "<", "/", "p", ">", "\n">>>>,
     <<<<"+", "1">>,
       <<"<", "p", ">", "+", "1", "<", "/", "p", ">", "\n">>>>,
     <<<<"a", " ", "@", " ", "b">>,
       <<"<", "p", ">", "a", " ", "@", " ", "b", "<", "/", "p", ">", "\n">>>>,
     <<<<"h", "t", "t", "p", ":", "/", "/">>,
       <<"<", "p", ">", "h", "t", "t", "p", ":", "/", "/", "<", "/", "p", ">", "\n">>>>,
     <<<<"h", "t", "t", "p", "s", ":", "/", "/">>,
       <<"<", "p", ">", "h", "t", "t", "p", "s", ":", "/", "/", "<", "/", "p", ">", "\n">>>>,
     <<<<"m", "a", "i", "l", "t", "o", ":">>,
       <<"<", "p", ">", "m", "a", "i", "l", "t", "o", ":", "<", "/", "p", ">", "\n">>>>,
     <<<<"-", " ", "a">>,
       <<"<", "u", "l", ">", "\n", "<", "l", "i", ">", "a", "<", "/", "l", "i", ">", "\n", "<", "/", "u", "l", ">", "\n">>>>,
     <<<<"+", " ", "a">>,
       <<"<", "u", "l", ">", "\n", "<", "l", "i", ">", "a", "<", "/", "l", "i", ">", "\n", "<", "/", "u", "l", ">", "\n">>>>,
     <<<<"-", "\t", "a">>,
       <<"<", "u", "l", ">", "\n", "<", "l", "i", ">", "a", "<", "/", "l", "i", ">", "\n", "<", "/", "u", "l", ">", "\n">>>>,
     <<<<"1", ".", " ", "a">>,
       <<"<", "o", "l", ">", "\n", "<", "l", "i", ">", "a", "<", "/", "l", "i", ">", "\n", "<", "/", "o", "l", ">", "\n">>>>,
     <<<<"1", ".", "5", " ", "l">>,
       <<"<", "p", ">", "1", ".", "5", " ", "l", "<", "/", "p", ">", "\n">>>>,
     <<<<"1", "2", ".", "5">>,
       <<"<", "p", ">", "1", "2", ".", "5", "<", "/", "p", ">", "\n">>>>,
     <<<<"a", "\n", "b">>,
       <<"<", "p", ">", "a", "<", "b", "r", " ", "/", ">", "\n", "b", "<", "/", "p", ">", "\n">>>>,
     <<<<"-", " ", "[", " ", "]", " ", "a">>,
       <<"<", "u", "l", ">", "\n", "<", "l", "i", ">", "<", "i", "n", "p", "u", "t", " ", "d", "i", "s", "a", "b", "l", "e", "d", "=", "\"", "\"", " ", "t", "y", "p", "e", "=", "\"", "c", "h", "e", "c", "k", "b", "o", "x", "\"", " ", "/", ">", " ", "a", "<", "/", "l", "i", ">", "\n", "<", "/", "u", "l", ">", "\n">>>>,
     <<<<"-", " ", "[", "x", "]", " ", "a">>,
       <<"<", "u", "l", ">", "\n", "<", "l", "i", ">", "<", "i", "n", "p", "u", "t", " ", "c", "h", "e", "c", "k", "e", "d", "=", "\"", "\"", " ", "d", "i", "s", "a", "b", "l", "e", "d", "=", "\"", "\"", " ", "t", "y", "p", "e", "=", "\"", "c", "h", "e", "c", "k", "b", "o", "x", "\"", " ", "/", ">", " ", "a", "<", "/", "l", "i", ">", "\n", "<", "/", "u", "l", ">", "\n">>>>,
     <<<<"<", "b", ">", "x", "<", "/", "b", ">">>,
       <<"<", "p", ">", "<", "!", "-", "-", " ", "r", "a", "w", " ", "H", "T", "M", "L", " ", "o", "m", "i", "t", "t", "e", "d", " ", "-", "-", ">", "x", "<", "!", "-", "-", " ", "r", "a", "w", " ", "H", "T", "M", "L", " ", "o", "m", "i", "t", "t", "e", "d", " ", "-", "-", ">", "<", "/", "p", ">", "\n">>>>,
     <<<<"<", "d", "i", "v", ">", "x", "<", "/", "d", "i", "v", ">">>,
       <<"<", "!", "-", "-", " ", "r", "a", "w", " ", "H", "T", "M", "L", " ", "o", "m", "i", "t", "t", "e", "d", " ", "-", "-", ">", "\n">>>>}

\* further inputs: blank and padded ones, simple plain text, and single
\* lines with each of the markdown patterns and list markers

OtherInputs ==
    {<<" ", " ">>,
     <<"B", "u", "y", " ", "m", "i", "l", "k">>,
     <<" ", "B", "u", "y", " ", "m", "i", "l", "k", " ", "\n">>,
     <<"a", "_", "b">>,
     <<"-", "x", " ", "1", ".">>,
     <<"a", " ", "-", " ", "b">>,
     <<"a", "~", "b">>,
     <<"V", "e", "r", "s", "i", "o", "n", " ", "2", " ", "i", "s", " ", "o", "u", "t">>,
     <<"\t", "H", "e", "l", "l", "o", " ", "w", "o", "r", "l", "d", " ">>,
     <<" ", " ", "T", "h", "i", "s", " ", "i", "s", " ", "*", "*", "b", "o", "l", "d", "*", "*", " ", "t", "e", "x", "t", " ", "\n">>,
     <<"\n", "#", " ", "H", "e", "a", "d", "i", "n", "g", " ", "1", "\n">>,
     <<"*", "*", "a", "*", "*">>,
     <<"a", " ", "*", " ", "b">>,
     <<"~", "~", "a", "~", "~">>,
     <<"a", "~", "~", "b">>,
     <<Backtick, "c", Backtick>>,
     <<"[", "x", "]", "(", "u", ")">>,
     <<"[", "x", "]", "(", "u", " ", "\"", "t", "\"", ")">>,
     <<"!", "[", "i", "]", "(", "s", ")">>,
     <<"a", " ", "[", "b">>,
     <<"a", "]", " ", "b">>,
     <<"a", " ", "(", "b">>,
     <<"a", ")", " ", "b">>,
     <<"a", " ", "#", " ", "b">>,
     <<"#", " ", "T">>,
     <<"a", " ", ">", " ", "b">>,
     <<"a", " ", "<", " ", "b">>,
     <<"a", " ", "&", " ", "b">>,
     <<"+", "1">>,
     <<"a", " ", "@", " ", "b">>,
     <<"h", "t", "t", "p", ":", "/", "/">>,
     <<"h", "t", "t", "p", "s", ":", "/", "/">>,
     <<"m", "a", "i", "l", "t", "o", ":">>,
     <<"-", " ", "a">>,
     <<"+", " ", "a">>,
     <<"-", "\t", "a">>,
     <<"1", ".", " ", "a">>,
     <<"1", ".", "5", " ", "l">>,
     <<"1", "2", ".", "5">>,
     <<"a", "\n", "b">>,
     <<"-", " ", "[", " ", "]", " ", "a">>,
     <<"-", " ", "[", "x", "]", " ", "a">>,
     <<"<", "b", ">", "x", "<", "/", "b", ">">>,
     <<"<", "d", "i", "v", ">", "x", "<", "/", "d", "i", "v", ">">>}


\* c.md.Convert(source, &buf): the HTML written into the buffer and the
\* error returned; writing into a bytes.Buffer does not fail
Convert(source) ==
    [html |-> (CHOOSE e \in GoldmarkOutput : e[1] = source)[2], err |-> "nil"]

\* what the html field holds when c.md.Convert failed, and when it was not
\* called
ConvertFailed == <<"convert failed">>
NotRendered == <<"not rendered">>

EmptyDiv == <<"<", "d", "i", "v", ">", "<", "/", "d", "i", "v", ">">>

\* mutant: the post-processed HTML returned without validating it
RenderedResultUnchecked(html) ==
    IF TrimSpace(postProcessHTML(html)) \in {<<>>, EmptyDiv}
    THEN [out |-> <<>>, err |-> "nil", html |-> html]
    ELSE [out |-> TrimSpace(postProcessHTML(html)), err |-> "nil",
          html |-> html]

\* MarkdownToRichText from the HTML goldmark wrote: post-processed, trimmed,
\* emptied, validated
RenderedResult(html) ==
    IF TrimSpace(postProcessHTML(html)) \in {<<>>, EmptyDiv}
    THEN [out |-> <<>>, err |-> "nil", html |-> html]
    ELSE IF ValidateBasecampHTML(TrimSpace(postProcessHTML(html))) # NoError
    THEN [out |-> <<>>, err |-> "generated HTML contains unsupported tags",
          html |-> html]
    ELSE [out |-> TrimSpace(postProcessHTML(html)), err |-> "nil",
          html |-> html]

\* MarkdownToRichText on the trimmed input
ConvertTrimmed(input) ==
    IF input = <<>> THEN [out |-> <<>>, err |-> "nil", html |-> NotRendered]
    ELSE IF isSimplePlainText(input)
    THEN [out |-> input, err |-> "nil", html |-> NotRendered]
    ELSE IF Convert(input).err # "nil"
    THEN [out |-> <<>>, err |-> "failed to convert markdown",
          html |-> ConvertFailed]
    ELSE RenderedResult(Convert(input).html)

\* converter.MarkdownToRichText(markdown): the output, the error and what
\* goldmark wrote
MarkdownToRichText(markdown) == ConvertTrimmed(TrimSpace(markdown))

\* the Markdown texts passed: the inputs of the test cases, each of them
\* also with white space around it, and the further inputs
MarkdownInputs ==
    {c.input : c \in TestCases}
    \cup {<<" ">> \o c.input \o <<"\n">> : c \in TestCases}
    \cup OtherInputs

\* one call of MarkdownToRichText
ConvertCall(markdown) ==
    /\ fn.op = "none"
    /\ fn' = [op |-> "MarkdownToRichText", in |-> markdown]
             @@ MarkdownToRichText(markdown)
    /\ UNCHANGED <<rlvars, now, op, pc, wake, loc, calls, granted, hasReset,
                   ctxDone, ga, wire, lr>>

MdNext ==
    /\ fn.op = "none"
    /\ \E markdown \in MarkdownInputs : ConvertCall(markdown)

\* TestMarkdownToRichText: a call with the input of a test case returns the
\* result the test asserts, and no error
TestMarkdownToRichText ==
    fn.op = "MarkdownToRichText" =>
        \A c \in TestCases :
            fn.in = c.input => fn.err = "nil" /\ fn.out = c.expected

MdSpec == PageInit /\ [][MdNext]_vars

(***************************************************************************)
(* ValidateBasecampHTML on HTML written from tags: a document is a list of *)
(* up to MaxTags tags, each followed by the text x; a tag is an opening    *)
(* tag with its attributes or a closing tag, and its name may be written   *)
(* in upper case.  fn holds the call: the HTML passed, the tags it was     *)
(* written from, and the error returned.                                   *)
(***************************************************************************)
HrefName == <<"h", "r", "e", "f">>

\* the attributes a tag is written with
Attrs ==
    {[name |-> HrefName, value |-> <<"u">>],
     [name |-> <<"H", "R", "E", "F">>, value |-> <<"u">>],
     [name |-> <<"t", "a", "r", "g", "e", "t">>, value |-> <<"b">>],
     [name |-> <<"c", "l", "a", "s", "s">>, value |-> <<"c">>]}

AttrLists == {<<>>} \cup {<<a>> : a \in Attrs}
                 \cup {<<a, b>> : a \in Attrs, b \in Attrs}

AnchorNames == {<<"a">>, <<"A">>}
OtherNames ==
    {<<"d", "i", "v">>, <<"D", "I", "V">>, <<"s", "c", "r", "i", "p", "t">>, <<"S", "c", "r", "i", "p", "t">>, <<"b", "c", "-", "a", "t", "t", "a", "c", "h", "m", "e", "n", "t">>, <<"h", "2">>}

Tags ==
    [close : {FALSE}, name : AnchorNames, attrs : AttrLists]
    \cup [close : {FALSE}, name : OtherNames,
          attrs : {<<>>, <<[name |-> <<"c", "l", "a", "s", "s">>, value |-> <<"c">>]>>}]
    \cup [close : {TRUE}, name : AnchorNames \cup OtherNames, attrs : {<<>>}]

HtmlDocs == UNION {[1..n -> Tags] : n \in 0..MaxTags}

\* name="value" after a space, for each attribute from the k-th on
RECURSIVE WriteAttrs(_, _)
WriteAttrs(attrs, k) ==
    IF k > Len(attrs) THEN <<>>
    ELSE <<" ">> \o attrs[k].name \o <<"=", Quote>> \o attrs[k].value
         \o <<Quote>> \o WriteAttrs(attrs, k + 1)

WriteTag(tag) ==
    <<"<">> \o (IF tag.close THEN <<"/">> ELSE <<>>) \o tag.name
    \o WriteAttrs(tag.attrs, 1) \o <<">">>

\* the tags from the k-th on, each followed by the text x
RECURSIVE WriteHtml(_, _)
WriteHtml(tags, k) ==
    IF k > Len(tags) THEN <<>>
    ELSE WriteTag(tags[k]) \o <<"x">> \o WriteHtml(tags, k + 1)

\* one call of ValidateBasecampHTML
ValidateCall(tags) ==
    /\ fn.op = "none"
    /\ fn' = [op |-> "ValidateBasecampHTML", in |-> WriteHtml(tags, 1),
              sent |-> tags, out |-> ValidateBasecampHTML(WriteHtml(tags, 1))]
    /\ UNCHANGED <<rlvars, now, op, pc, wake, loc, calls, granted, hasReset,
                   ctxDone, ga, wire, lr>>

HtmlNext == \E tags \in HtmlDocs : ValidateCall(tags)

HtmlSpec == PageInit /\ [][HtmlNext]_vars

(***************************************************************************)
(* Concurrent callers of Wait, as in                                       *)
(* TestRateLimiter_Wait_ConcurrentNeverNegative: every goroutine calls     *)
(* Wait once, at any time after the creation of the limiter, and the clock *)
(* runs freely and for ever, also while goroutines are runnable.           *)
(***************************************************************************)
LiveInit ==
    /\ \E m \in 1..MaxTokensBound : \E d \in RefillDurations(m) : NewRateLimiter(m, d)
    /\ mu = 0
    /\ now = 0
    /\ op = [p \in Waiters |-> "idle"]
    /\ pc = [p \in Waiters |-> "idle"]
    /\ wake = [p \in Waiters |-> 0]
    /\ loc = [p \in Waiters |-> NoLoc]
    /\ calls = 0
    /\ granted = 0
    /\ hasReset = FALSE
    /\ ctxDone = FALSE
    /\ ga = <<>>
    /\ wire = {}
    /\ lr = NoLr
    /\ fn = NoFn

\* a goroutine calls Wait, once
LiveStart(p) ==
    /\ op[p] = "idle"
    /\ loc[p].acquired = 0
    /\ op' = [op EXCEPT ![p] = "Wait"]
    /\ pc' = [pc EXCEPT ![p] = "w_lock"]
    /\ calls' = calls + 1
    /\ UNCHANGED <<pgvars, rlvars, now, wake, loc, granted, hasReset>>

NextLive ==
    \/ \E p \in Waiters : LiveStart(p)
    \/ \E p \in Waiters : WaitLock(p)
    \/ \E p \in Waiters : WaitRefill(p)
    \/ \E p \in Waiters : WaitDec(p)
    \/ \E p \in Waiters : WaitCalc(p)
    \/ \E p \in Waiters : WaitWake(p)
    \/ \E p \in Waiters : WaitReturn(p)
    \/ TickLive

\* every goroutine inside Wait goes on taking steps, and time keeps advancing
LiveSpec ==
    /\ LiveInit
    /\ [][NextLive]_vars
    /\ \A p \in Waiters : WF_vars(WaitSteps(p))
    /\ WF_vars(TickLive)

\* C1: the token count of the limiter stays within 0..maxTokens in every
\* reachable state, whatever the interleaving of Wait, TryAcquire and Reset
\* and whatever time passes.
TokensInRange == 0 <= tokens /\ tokens <= maxTokens

\* C1 witness: a drained limiter with a caller asleep in Wait after a Reset
\* has run
TokensInRangeWitness ==
    /\ hasReset
    /\ tokens = 0
    /\ granted > maxTokens
    /\ \E p \in Procs : pc[p] = "w_sleep"

\* C2: while Reset has not been called, the number of tokens granted so far
\* (Wait returns and successful TryAcquire calls) never exceeds maxTokens plus
\* the number of whole refill intervals elapsed since the limiter was created.
GrantsWithinBudget ==
    ~hasReset => granted <= maxTokens + (now \div refillRate)

\* C2 witness: a refilled token has been granted while another caller
\* contends for the mutex
GrantsWithinBudgetWitness ==
    /\ ~hasReset
    /\ granted > maxTokens
    /\ \E p, q \in Procs : mu = p /\ pc[q] \in {"w_lock", "t_lock"}

\* C3: with more callers than tokens waiting concurrently and the clock
\* advancing, every caller's Wait eventually returns, and once all have
\* returned the token count is within 0..maxTokens.
AllWaitersReturn ==
    /\ \A p \in Waiters : (op[p] = "Wait") ~> (op[p] = "idle")
    /\ []((\A p \in Waiters : op[p] = "idle") => TokensInRange)

\* C3 witness: the last of more than maxTokens concurrent callers returns
\* from Wait after having slept
AllWaitersReturnWitness ==
    /\ NumWaiters > maxTokens
    /\ granted = NumWaiters
    /\ \E p \in Waiters :
          /\ pc[p] = "w_ret"
          /\ loc[p].slept
          /\ \A q \in Waiters \ {p} : op[q] = "idle"

\* C4: on a limiter that has not been Reset, a Wait that takes one of the
\* first maxTokens tokens returns without having slept, and a Wait that takes
\* a later token returns no earlier than one refill interval after creation.
FirstTokensImmediate ==
    \A p \in Procs :
        (pc[p] = "w_ret" /\ ~hasReset) =>
            /\ granted <= maxTokens => ~loc[p].slept
            /\ granted > maxTokens => now >= refillRate

\* C4 witness: the Wait after the first maxTokens grants returns after a sleep
FirstTokensImmediateWitness ==
    \E p \in Procs :
        /\ pc[p] = "w_ret"
        /\ ~hasReset
        /\ granted = maxTokens + 1
        /\ loc[p].slept

\* C5: TryAcquire never sleeps; it returns true exactly when a token is left
\* after the refill and then has taken exactly one; when it returns false it
\* has left tokens and lastRefill as it found them.
TryAcquireContract ==
    \A p \in Procs :
        /\ op[p] = "TryAcquire" =>
              /\ pc[p] \in {"t_lock", "t_refill", "t_dec", "t_ret"}
              /\ ~loc[p].slept
        /\ pc[p] = "t_ret" =>
              /\ loc[p].ret <=> loc[p].midTokens > 0
              /\ loc[p].ret => tokens = loc[p].midTokens - 1
              /\ ~loc[p].ret =>
                    /\ tokens = loc[p].preTokens
                    /\ lastRefill = loc[p].preLast

\* C5 witness: a TryAcquire returning false on a drained limiter part of the
\* way into a refill interval
TryAcquireContractWitness ==
    \E p \in Procs :
        /\ pc[p] = "t_ret"
        /\ ~loc[p].ret
        /\ now > lastRefill

\* C5 witness of the other case: a TryAcquire returning true on a token that
\* the refill has just added
TryAcquireTrueWitness ==
    \E p \in Procs :
        /\ pc[p] = "t_ret"
        /\ loc[p].ret
        /\ loc[p].preTokens = 0

\* the items of a sequence of pages, in page order
RECURSIVE Flatten(_)
Flatten(pages) ==
    IF pages = <<>> THEN <<>> ELSE Head(pages) \o Flatten(Tail(pages))

\* the pcs of a caller inside rateLimiter.Wait before it has taken its token
BeforeToken == {"w_lock", "w_refill", "w_dec", "w_calc", "w_sleep"}

\* the requests of proc p that are in flight
InFlight(p) == {w \in wire : w.proc = p}

\* C6: within GetAll every page request follows a completed Wait of its own:
\* the requests a call has issued never outnumber the tokens it has acquired,
\* the n-th request is in flight only after the n-th acquisition, and while
\* the call is in Wait without its token no request of it is in flight and
\* every request issued so far has a token of its own.
RequestsFollowWait ==
    \A p \in Fetchers :
        op[p] = "GetAll" =>
            /\ loc[p].reqs <= loc[p].acquired
            /\ \A w \in InFlight(p) : w.n <= loc[p].acquired
            /\ pc[p] \in BeforeToken =>
                  /\ InFlight(p) = {}
                  /\ loc[p].reqs = loc[p].acquired
            /\ pc[p] = "await" => loc[p].reqs = loc[p].acquired

\* C6 witness: a GetAll about to request its second page holds a second token
\* that it slept for
RequestsFollowWaitWitness ==
    \E p \in Fetchers :
        /\ op[p] = "GetAll"
        /\ pc[p] = "g_request"
        /\ loc[p].reqs = 1
        /\ loc[p].acquired = 2
        /\ loc[p].slept

\* C7: every request that is on the wire, whichever client call issued it
\* (Get, Post, Put, Delete, GetPage or GetAll), was preceded by the
\* acquisition of a token of its own from the rate limiter.
EveryRequestAcquires ==
    \A w \in wire : w.n <= loc[w.proc].acquired

\* C8: the pages of one GetAll are sequential: at most one request of the
\* call is in flight, the call is blocked on it, and request N+1 is in flight
\* only when N pages have been received, decoded and appended.
PagesSequential ==
    \A p \in Fetchers :
        op[p] = "GetAll" =>
            /\ Cardinality(InFlight(p)) <= 1
            /\ loc[p].reqs <= Len(ga[p].pages) + 1
            /\ \A w \in InFlight(p) :
                  /\ pc[p] = "await"
                  /\ w.n = Len(ga[p].pages) + 1

\* C8 witness: the request for the second page is in flight after the first
\* page has been decoded
PagesSequentialWitness ==
    \E p \in Fetchers :
        /\ op[p] = "GetAll"
        /\ InFlight(p) = {[proc |-> p, n |-> 2]}
        /\ Len(ga[p].pages) = 1
        /\ ga[p].closed = 1

\* C9: with maxPages = k > 0 a GetAll issues at most k requests and decodes
\* at most k pages whatever Link headers the server sends, its result is the
\* items of the decoded pages in page order, and after k pages it returns nil.
MaxPagesRespected ==
    \A p \in Fetchers :
        (op[p] = "GetAll" /\ ga[p].maxPages > 0) =>
            /\ loc[p].reqs <= ga[p].maxPages
            /\ Len(ga[p].pages) <= ga[p].maxPages
            /\ ga[p].result = Flatten(ga[p].pages)
            /\ Len(ga[p].pages) = ga[p].maxPages =>
                  /\ pc[p] = "return"
                  /\ ga[p].err = "nil"
                  /\ InFlight(p) = {}

\* C9 witness: a GetAll with maxPages = 2 returns after two pages although
\* the second response advertises a next page
MaxPagesRespectedWitness ==
    \E p \in Fetchers :
        /\ op[p] = "GetAll"
        /\ pc[p] = "return"
        /\ ga[p].maxPages = 2
        /\ Len(ga[p].pages) = 2
        /\ loc[p].reqs = 2
        /\ ga[p].resp.link = AbsNextLink
        /\ ga[p].result = <<1, 1, 3>>

\* C10: once pageCheck has returned false for a page, GetAll has returned nil:
\* that page is the first for which the check is false, its items are in the
\* result, every request the call issued is a decoded page up to that one,
\* and no request is in flight.
PageCheckStops ==
    \A p \in Fetchers :
        (/\ op[p] = "GetAll"
         /\ ga[p].checks # <<>>
         /\ ~ga[p].checks[Len(ga[p].checks)]) =>
            /\ pc[p] = "return"
            /\ ga[p].err = "nil"
            /\ InFlight(p) = {}
            /\ loc[p].reqs = Len(ga[p].pages)
            /\ Len(ga[p].checks) = Len(ga[p].pages)
            /\ \A j \in 1..(Len(ga[p].checks) - 1) : ga[p].checks[j]
            /\ ~pageCheck(ga[p].check, ga[p].pages[Len(ga[p].pages)])
            /\ ga[p].result = Flatten(ga[p].pages)

\* C10 witness: the check passes the first page and stops at the second,
\* whose response advertises a next page
PageCheckStopsWitness ==
    \E p \in Fetchers :
        /\ op[p] = "GetAll"
        /\ ga[p].check = "lastBelow"
        /\ ga[p].checks = <<TRUE, FALSE>>
        /\ ga[p].pages = <<(<<1>>), <<1, 3>>>>
        /\ ga[p].result = <<1, 1, 3>>
        /\ ga[p].resp.link = NextLink
        /\ loc[p].reqs = 2

\* C11: once a decoded page is empty, GetAll is at its return with a nil
\* error whatever Link header that response carries: every request the call
\* issued is a decoded page, none is in flight, and the pageCheck callback
\* is not called for the empty page.
EmptyPageStops ==
    \A p \in Fetchers :
        (/\ op[p] = "GetAll"
         /\ ga[p].pages # <<>>
         /\ ga[p].pages[Len(ga[p].pages)] = <<>>) =>
            /\ pc[p] = "return"
            /\ ga[p].err = "nil"
            /\ InFlight(p) = {}
            /\ loc[p].reqs = Len(ga[p].pages)
            /\ Len(ga[p].checks) =
                  IF ga[p].check = "nil" THEN 0 ELSE Len(ga[p].pages) - 1

\* C11 witness: the second page is empty and its response advertises a next
\* page; no page limit is set
EmptyPageStopsWitness ==
    \E p \in Fetchers :
        /\ op[p] = "GetAll"
        /\ ga[p].maxPages = 0
        /\ ga[p].pages = <<(<<1>>), <<>>>>
        /\ ga[p].resp.link = NextLink
        /\ pc[p] = "return"

\* the errors GetAll returns when the request or the decoding of a page fails
PageFailures ==
    {"failed to fetch paginated results", "failed to decode paginated results"}

\* C12: when GetAll returns an error because the request or the decoding of
\* a page failed, the result the caller sees holds no items of earlier pages.
FailureDiscardsItems ==
    \A p \in Fetchers :
        (/\ op[p] = "GetAll"
         /\ pc[p] = "return"
         /\ ga[p].err \in PageFailures) =>
            ga[p].result = <<>>

\* C13: when the pageCheck callback cancels the context on page 1 and returns
\* true, GetAll issues no second request and takes no second token; the
\* caller's slice holds exactly the items of page 1; and when page 1
\* advertised a next page GetAll returns the context's error.
CancelInCheckStops ==
    \A p \in Fetchers :
        (/\ op[p] = "GetAll"
         /\ ga[p].check = "cancelTrue"
         /\ ga[p].checks # <<>>) =>
            /\ ctxDone
            /\ ga[p].checks = <<TRUE>>
            /\ loc[p].reqs = 1
            /\ loc[p].acquired = 1
            /\ InFlight(p) = {}
            /\ Len(ga[p].pages) = 1
            /\ ga[p].result = ga[p].pages[1]
            /\ pc[p] \in {"g_delay", "g_loop", "return"}
            /\ pc[p] = "return" =>
                  ga[p].err = IF ga[p].path # <<>> THEN "context canceled"
                              ELSE "nil"

\* C13 witness: GetAll has returned the context's error after a first page
\* of two items whose response advertised a next page
CancelInCheckStopsWitness ==
    \E p \in Fetchers :
        /\ op[p] = "GetAll"
        /\ ga[p].check = "cancelTrue"
        /\ pc[p] = "return"
        /\ ga[p].err = "context canceled"
        /\ ga[p].result = <<1, 3>>
        /\ ga[p].resp.link = AbsNextLink
        /\ loc[p].reqs = 1

\* a step of proc p from the head of the GetAll loop with a path to fetch and
\* a context that is done
CancelledIteration(p) ==
    /\ op[p] = "GetAll"
    /\ pc[p] = "g_loop"
    /\ ga[p].path # <<>>
    /\ ctxDone
    /\ pc'[p] # pc[p]

\* C14: a GetAll loop iteration that begins with the context already done
\* (also the first one) ends the call with the context's error: the step
\* goes to the return, takes no token, issues no request and leaves the
\* limiter and the result as they are.
CancelledBeforeIteration ==
    [][\A p \in Fetchers :
          CancelledIteration(p) =>
              /\ pc'[p] = "return"
              /\ ga'[p].err = "context canceled"
              /\ ga'[p].result = ga[p].result
              /\ loc'[p] = loc[p]
              /\ wire' = wire
              /\ UNCHANGED rlvars]_vars

\* C14 witness: a GetAll whose context was cancelled before its first
\* iteration has returned the context's error with no token and no request
CancelledBeforeIterationWitness ==
    \E p \in Fetchers :
        /\ op[p] = "GetAll"
        /\ pc[p] = "return"
        /\ ga[p].err = "context canceled"
        /\ loc[p].reqs = 0
        /\ loc[p].acquired = 0
        /\ ga[p].pageCount = 0

\* a step of proc p out of a sleep of GetAll (the time.Sleep of
\* rateLimiter.Wait or the delay between two pages) while the context is done
LeavesSleepCancelled(p) ==
    /\ op[p] = "GetAll"
    /\ pc[p] \in {"w_sleep", "g_delay"}
    /\ ctxDone
    /\ pc'[p] # pc[p]

\* C15: a GetAll that is blocked in the token wait or in the delay between
\* two pages while its context is done leaves that sleep by returning the
\* context's error, not by completing the wait or the delay.
SleepsAreCancellable ==
    [][\A p \in Fetchers :
          LeavesSleepCancelled(p) =>
              /\ pc'[p] = "return"
              /\ ga'[p].err = "context canceled"]_vars

\* C16: when the context of a GetAll is done while a page request is in
\* flight and the server has not answered, the request is given up and GetAll
\* comes to its return with the error of the failed request; the response of
\* the server is not what ends the wait.
InFlightAborted ==
    \A p \in Fetchers :
        (op[p] = "GetAll" /\ pc[p] = "await" /\ ctxDone)
            ~> (/\ pc[p] = "return"
                /\ ga[p].err = "failed to fetch paginated results"
                /\ ga[p].resp = NetError
                /\ InFlight(p) = {})

\* C16 witness: the request for the second page has been given up on a done
\* context and GetAll returns the error with the first page decoded
InFlightAbortedWitness ==
    \E p \in Fetchers :
        /\ op[p] = "GetAll"
        /\ pc[p] = "return"
        /\ ctxDone
        /\ ga[p].err = "failed to fetch paginated results"
        /\ loc[p].reqs = 2
        /\ Len(ga[p].pages) = 1
        /\ ga[p].closed = 1

\* the types whose fetch has returned an error
FailedTypes == {t \in DOMAIN lr.errs : lr.errs[t] # "nil"}

\* C17: when the fetch of some type failed, ListRecordings returns no
\* recordings and an error that names a type whose fetch failed and carries
\* the error of that fetch; what other types fetched is not returned.  When
\* no fetch failed it returns no error.
ListFailsWhole ==
    lr.pc = "done" =>
        IF FailedTypes # {}
        THEN /\ lr.ret = <<>>
             /\ lr.retErr.type \in FailedTypes
             /\ lr.retErr.cause = lr.errs[lr.retErr.type]
             /\ lr.retErr = lr.err
        ELSE lr.retErr = NoErr

\* C17 witness: ListRecordings has returned the error of type 2 although
\* type 1 fetched two pages of recordings without an error
ListFailsWholeWitness ==
    /\ lr.pc = "done"
    /\ lr.retErr = [type |-> 2, cause |-> "failed to fetch paginated results"]
    /\ lr.errs[1] = "nil"
    /\ lr.results[1] = <<1, 3, 1>>
    /\ lr.ret = <<>>

\* the state part of C18
CancelOnFailure ==
    /\ lr.err # NoErr => ctxDone
    /\ lr.pc = "done" =>
          /\ lr.finished = Types
          /\ \A t \in Types : op[t] = "idle" /\ pc[t] = "idle"
          /\ wire = {}
          /\ lr.retErr = lr.err

\* the step part of C18: what a step may do once the context is done
StoppedAfterCancel ==
    ctxDone =>
        /\ wire' \subseteq wire
        /\ \A t \in Types :
              /\ loc'[t].reqs = loc[t].reqs
              /\ (pc[t] = "await" /\ pc'[t] # "await") =>
                    ga'[t].resp = NetError
              /\ pc[t] # "g_response" =>
                    Len(ga'[t].pages) <= Len(ga[t].pages)

\* the step part of C18 as the claim states it: once the context is done no
\* goroutine completes a page
NoPageAfterCancel ==
    ctxDone =>
        /\ wire' \subseteq wire
        /\ \A t \in Types :
              /\ loc'[t].reqs = loc[t].reqs
              /\ (pc[t] = "await" /\ pc'[t] # "await") =>
                    ga'[t].resp = NetError
              /\ Len(ga'[t].pages) <= Len(ga[t].pages)

\* C18 as stated: the failure of one type's fetch cancels the shared
\* context; from then on a request in flight is aborted and no goroutine
\* completes another page; every goroutine returns and ListRecordings
\* returns the first error only after all of them have returned.  It does
\* not hold: a goroutine that holds the response of its request when the
\* context is cancelled decodes it and appends the page, and meets the
\* cancellation at the head of its next iteration.
SiblingsStopAtOnce ==
    /\ []CancelOnFailure
    /\ [][NoPageAfterCancel]_vars
    /\ (lr.err # NoErr) ~> (lr.pc = "done" /\ lr.retErr = lr.err)

\* C18, amended: the failure of one type's fetch cancels the shared context;
\* from then on no goroutine issues a request, a request in flight ends with
\* the error of its context, and no goroutine takes in a page other than
\* one whose response it had already received; every goroutine returns and
\* ListRecordings returns the first error, only after all of them have
\* returned and with no request left in flight.
SiblingsStop ==
    /\ []CancelOnFailure
    /\ [][StoppedAfterCancel]_vars
    /\ (lr.err # NoErr) ~> (lr.pc = "done" /\ lr.retErr = lr.err)

\* C18 witness: type 1 has failed; type 2, whose second request was in
\* flight, comes back with the error of the cancelled request
SiblingsStopWitness ==
    /\ lr.err = [type |-> 1, cause |-> "failed to fetch paginated results"]
    /\ lr.pc = "wait"
    /\ pc[2] = "return"
    /\ ga[2].resp = NetError
    /\ loc[2].reqs = 2
    /\ Len(ga[2].pages) = 1

\* C19: what sortRecordings returns is in descending order of UpdatedAt, is a
\* permutation of its input, and keeps recordings with the same UpdatedAt in
\* the order of the input (the ID of a recording is its input position).
SortIsStableDescending ==
    fn.op = "sortRecordings" =>
        /\ Len(fn.out) = Len(fn.in)
        /\ \A r \in 1..Len(fn.in) : \E i \in 1..Len(fn.out) : fn.out[i] = fn.in[r]
        /\ \A i, j \in 1..Len(fn.out) :
              i < j =>
                  /\ fn.out[i].UpdatedAt >= fn.out[j].UpdatedAt
                  /\ fn.out[i].UpdatedAt = fn.out[j].UpdatedAt =>
                        fn.out[i].ID < fn.out[j].ID

\* C19 witness: three recordings with the same UpdatedAt, behind an older
\* one in the input, come out in front of it in their input order
SortIsStableDescendingWitness ==
    /\ fn.op = "sortRecordings"
    /\ Len(fn.in) = 3
    /\ fn.in[1].UpdatedAt = 1
    /\ fn.in[2].UpdatedAt = 2
    /\ fn.in[3].UpdatedAt = 2
    /\ fn.out = <<fn.in[2], fn.in[3], fn.in[1]>>

\* the positions of the recordings that pass the since and the personId
\* filter of opts
Qualifying(recordings, opts) ==
    {i \in 1..Len(recordings) :
        /\ opts.Since # 0 => recordings[i].UpdatedAt >= opts.Since
        /\ opts.PersonID > 0 => recordings[i].Creator = opts.PersonID}

\* the k-th smallest element of a set of positions
KthOf(S, k) == CHOOSE i \in S : Cardinality({j \in S : j <= i}) = k

\* C20: what filterRecordings returns is, in input order, the recordings whose
\* UpdatedAt is not before since (when set) and whose creator is personId
\* (when non-zero), cut to the first limit of them when limit > 0: with a
\* limit L it is the first min(L, number of qualifying) qualifying recordings.
FilterOrder ==
    fn.op = "filterRecordings" =>
        LET Q == Qualifying(fn.in, fn.opts)
            n == IF fn.opts.Limit > 0 /\ fn.opts.Limit < Cardinality(Q)
                 THEN fn.opts.Limit ELSE Cardinality(Q)
        IN  fn.out = [k \in 1..n |-> fn.in[KthOf(Q, k)]]

\* C20 witness: since, personId and a limit of 1 are all set; the first
\* recording is too old, the second has another creator, and the result is
\* the third recording, which is not among the first limit inputs
FilterOrderWitness ==
    /\ fn.op = "filterRecordings"
    /\ fn.opts = [Since |-> 2, PersonID |-> 1, Limit |-> 1]
    /\ Len(fn.in) = 3
    /\ fn.in[1].UpdatedAt = 1
    /\ fn.in[2].Creator = 2
    /\ fn.out = <<fn.in[3]>>

\* C21, as amended: since is an inclusive lower bound. Every recording that
\* filterRecordings returns has UpdatedAt >= since, and a recording whose
\* UpdatedAt equals since and whose creator passes the person filter is
\* returned unless the limit was reached.
SinceInclusive ==
    (fn.op = "filterRecordings" /\ fn.opts.Since # 0) =>
        /\ \A k \in 1..Len(fn.out) : fn.out[k].UpdatedAt >= fn.opts.Since
        /\ \A i \in 1..Len(fn.in) :
              (/\ fn.in[i].UpdatedAt = fn.opts.Since
               /\ fn.opts.PersonID > 0 => fn.in[i].Creator = fn.opts.PersonID
               /\ fn.opts.Limit = 0 \/ Len(fn.out) < fn.opts.Limit)
              => \E k \in 1..Len(fn.out) : fn.out[k] = fn.in[i]

\* C21 witness: with since = 2 alone, a recording updated at 2 is returned
\* and one updated at 1 is not
SinceInclusiveWitness ==
    /\ fn.op = "filterRecordings"
    /\ fn.opts = [Since |-> 2, PersonID |-> 0, Limit |-> 0]
    /\ Len(fn.in) = 2
    /\ fn.in[1].UpdatedAt = 1
    /\ fn.in[2].UpdatedAt = 2
    /\ fn.out = <<fn.in[2]>>

\* C21 as stated: since is an exclusive lower bound, a recording whose
\* UpdatedAt equals since is not in the result of filterRecordings
SinceExclusive ==
    (fn.op = "filterRecordings" /\ fn.opts.Since # 0) =>
        \A k \in 1..Len(fn.out) : fn.out[k].UpdatedAt # fn.opts.Since

\* a page that ends the pagination under the cutoff since: it is empty or
\* its last recording is updated strictly before since
StopsAt(page, since) == page = <<>> \/ page[Len(page)] < since

\* C22, as amended: with since set, the pagination of a type stops after the
\* first page whose last item's updatedAt is strictly before since (or that
\* is empty), the page following it is never requested; a page whose last
\* item's updatedAt equals since or is after it does not stop the pagination,
\* which then ends only where the response advertises no next page.
SinceStopsStrictlyBefore ==
    \A t \in Types :
        (op[t] = "GetAll" /\ ga[t].check = "since") =>
            /\ \A j \in 1..Len(ga[t].pages) :
                  /\ StopsAt(ga[t].pages[j], lr.opts.Since) =>
                        /\ loc[t].reqs = j
                        /\ Len(ga[t].pages) = j
                  /\ ~StopsAt(ga[t].pages[j], lr.opts.Since) =>
                        \/ j < Len(ga[t].pages)
                        \/ pc[t] \in {"g_response", "g_delay"}
                        \/ loc[t].reqs > j
                        \/ ga[t].err # "nil"
                        \/ pc[t] = "return" /\ ga[t].resp.link = NoLink

\* C22 witness: the last item of the first page is updated at since and the
\* second page is requested; the last item of the second page is older and
\* the third page, which the response advertises, is not requested
SinceStopsStrictlyBeforeWitness ==
    /\ lr.pc = "wait"
    /\ lr.opts.Since = 2
    /\ pc[1] = "return"
    /\ ga[1].err = "nil"
    /\ ga[1].pages = <<(<<3, 2>>), <<2, 1>>>>
    /\ ga[1].resp.link = NextLink
    /\ loc[1].reqs = 2

\* C22 as stated: the pagination stops after the first page whose last
\* item's updatedAt is older than or equal to since
SinceStopsNotAfter ==
    \A t \in Types :
        (op[t] = "GetAll" /\ ga[t].check = "since") =>
            \A j \in 1..Len(ga[t].pages) :
                (/\ ga[t].pages[j] # <<>>
                 /\ ga[t].pages[j][Len(ga[t].pages[j])] <= lr.opts.Since)
                => loc[t].reqs <= j

\* the premise of early termination: the pages the server holds for a type
\* are non-empty and their items are in descending order of UpdatedAt
SortedDescending(served) ==
    /\ \A j \in 1..Len(served) : served[j] # <<>>
    /\ \A i, j \in 1..Len(Flatten(served)) :
          i < j => Flatten(served)[i] >= Flatten(served)[j]

\* the items of a sequence that are not before since
NotBefore(items, since) ==
    LET Q(x) == x >= since IN SelectSeq(items, Q)

\* the UpdatedAt of the recordings of type t in a sequence of recordings
OfType(recordings, t) ==
    LET Q(r) == r.Type = t
        sel == SelectSeq(recordings, Q)
    IN  [i \in 1..Len(sel) |-> sel[i].UpdatedAt]

\* C23: early termination loses no qualifying item.  When the server holds a
\* type's items in descending order of UpdatedAt on non-empty pages, the
\* items of the type that are not before since are all in what
\* listRecordingsByType returned for it, and all in what ListRecordings
\* returns with neither person filter nor limit.
NoQualifyingItemLost ==
    \A t \in Types :
        (/\ lr.pc \in {"wait", "done"}
         /\ lr.opts.Since # 0
         /\ SortedDescending(lr.served[t])) =>
            /\ (t \in lr.finished /\ lr.errs[t] = "nil") =>
                  NotBefore(lr.results[t], lr.opts.Since)
                      = NotBefore(Flatten(lr.served[t]), lr.opts.Since)
            /\ (/\ lr.pc = "done"
                /\ lr.retErr = NoErr
                /\ lr.opts.PersonID = 0
                /\ lr.opts.Limit = 0) =>
                  OfType(lr.ret, t)
                      = NotBefore(Flatten(lr.served[t]), lr.opts.Since)

\* C23 witness: the pagination of type 1 stopped after its second page, the
\* third was not fetched, and the three recordings of type 1 that are not
\* before since are in the result of ListRecordings
NoQualifyingItemLostWitness ==
    /\ lr.pc = "done"
    /\ lr.retErr = NoErr
    /\ lr.opts = SinceOpts
    /\ lr.served[1] = <<(<<3, 2>>), <<2, 1>>, <<1>>>>
    /\ lr.results[1] = <<3, 2, 2, 1>>
    /\ OfType(lr.ret, 1) = <<3, 2, 2>>

\* a header all of whose links are well-formed
WellFormed(links) == \A k \in 1..Len(links) : links[k].shape = "ok"

\* the positions of the links whose rel parameter lists the relation next
NextLinks(links) == {k \in 1..Len(links) : links[k].rel.next}

\* C24: for a header of well-formed links parseNextLinkURL returns the URL of
\* the first link, in header order, whose rel value lists next among its
\* whitespace-separated relation types, whatever the case of the letters,
\* and the empty string when the header is empty or no link has the relation.
FirstNextReturned ==
    (fn.op = "parseNextLinkURL" /\ WellFormed(fn.sent)) =>
        /\ fn.returned
        /\ fn.out = IF NextLinks(fn.sent) = {} THEN <<>>
                    ELSE fn.sent[MinOf(NextLinks(fn.sent))].url

\* C24 witness: rel="prev" on the first link, rel="next prefetch" on the
\* second, whose URL is returned
FirstNextReturnedWitness ==
    /\ fn.op = "parseNextLinkURL"
    /\ Len(fn.sent) = 2
    /\ WellFormed(fn.sent)
    /\ ~fn.sent[1].rel.next
    /\ Len(fn.sent[2].rel.text) > 6
    /\ fn.sent[2].rel.next
    /\ fn.sent[1].url # fn.sent[2].url
    /\ fn.out = fn.sent[2].url

\* the key "title" of LinkEntry.Params
TitleKey == <<"t", "i", "t", "l", "e">>

\* C25: a comma inside a quoted parameter value, also one that holds
\* backslash-escaped quotes, does not end the entry.  For a header of
\* well-formed links some of which carry such a title, the parser returns one
\* entry per link with the exact URL between the brackets and the title value
\* between the quotes, and the first link with the relation next is found.
QuotedCommaKeepsEntry ==
    (/\ fn.op = "parseNextLinkURL"
     /\ WellFormed(fn.sent)
     /\ \E k \in 1..Len(fn.sent) : fn.sent[k].title # NoTitle) =>
        /\ fn.returned
        /\ Len(fn.entries) = Len(fn.sent)
        /\ \A k \in 1..Len(fn.sent) :
              /\ fn.entries[k].URL = fn.sent[k].url
              /\ RelKey \in DOMAIN fn.entries[k].Params
              /\ IF fn.sent[k].title = NoTitle
                 THEN DOMAIN fn.entries[k].Params = {RelKey}
                 ELSE /\ DOMAIN fn.entries[k].Params = {TitleKey, RelKey}
                      /\ fn.entries[k].Params[TitleKey] = fn.sent[k].title.value
        /\ fn.out = IF NextLinks(fn.sent) = {} THEN <<>>
                    ELSE fn.sent[MinOf(NextLinks(fn.sent))].url

\* C25 witness: the first link has a title with escaped quotes and a comma
\* and rel="prev", the second a title with a comma in front of its
\* rel="next"; two entries are parsed and the URL of the second is returned
QuotedCommaKeepsEntryWitness ==
    /\ fn.op = "parseNextLinkURL"
    /\ Len(fn.sent) = 2
    /\ WellFormed(fn.sent)
    /\ fn.sent[1].title = EscapedTitle
    /\ ~fn.sent[1].rel.next
    /\ fn.sent[2].title = CommaTitle
    /\ fn.sent[2].rel.text = QuotedNext
    /\ fn.sent[1].url # fn.sent[2].url
    /\ Len(fn.entries) = 2
    /\ fn.out = fn.sent[2].url

\* the well-formed links of a header, in header order
GoodLinks(links) ==
    LET Q(l) == l.shape = "ok" IN SelectSeq(links, Q)

\* C26: on a header with a link that lacks its '>' or the closing quote of a
\* value, the parser drops only that link: the entries it returns are the
\* well-formed links of the header with their own URLs, and the URL returned
\* is that of the first well-formed link with the relation next.
MalformedDropsOnlyEntry ==
    (/\ fn.op = "parseNextLinkURL"
     /\ ~WellFormed(fn.sent)
     /\ \A k \in 1..Len(fn.sent) :
           fn.sent[k].shape \in {"ok", "noclose", "openquote"}) =>
        /\ fn.returned
        /\ Len(fn.entries) = Len(GoodLinks(fn.sent))
        /\ \A k \in 1..Len(fn.entries) :
              fn.entries[k].URL = GoodLinks(fn.sent)[k].url
        /\ fn.out = IF NextLinks(GoodLinks(fn.sent)) = {} THEN <<>>
                    ELSE GoodLinks(fn.sent)[MinOf(NextLinks(GoodLinks(fn.sent)))].url

\* C27: parseLinkHeaderEntries terminates on every header, well-formed or
\* not: every call of the parser returns.
ParserTerminates ==
    fn.op = "parseNextLinkURL" => fn.returned

\* a first path segment that is purely numeric
Numeric(segment) ==
    segment # <<>> /\ \A j \in 1..Len(segment) : segment[j] \in Digits

\* the hosts of URLHosts that url.Parse rejects: a space in the host or in the
\* userinfo, an escaped byte from 0x80 on in the zone of an IP literal
RejectedHost(host) ==
    Contains(host, <<" ">>) \/ Contains(host, <<"%", "8", "0">>)

\* C28, as amended: extractPathFromURL drops a purely numeric first path
\* segment as the account ID, keeping the rest of the path and the query
\* string, when the host of the URL contains basecampapi.com and the path has
\* a second segment; with another host, a non-numeric first segment or a
\* single segment it keeps the full path and the query string; a URL that
\* does not parse or has no scheme yields the empty string.
AccountDroppedOnAPIHost ==
    fn.op = "extractPathFromURL" =>
        fn.out =
            IF fn.sent.start # <<"h", "t", "t", "p", "s", ":", "/", "/">> THEN <<>>
            ELSE IF RejectedHost(fn.sent.host) THEN <<>>
            ELSE IF /\ fn.sent.host = <<"3", ".", "b", "a", "s", "e", "c", "a", "m", "p", "a", "p", "i", ".", "c", "o", "m">>
                    /\ Numeric(fn.sent.first)
                    /\ fn.sent.rest # <<>>
            THEN fn.sent.rest \o fn.sent.query
            ELSE <<"/">> \o fn.sent.first \o fn.sent.rest \o fn.sent.query

\* C28 witness: the account ID 42 is dropped from a URL of the API host and
\* the query string is kept
AccountDroppedOnAPIHostWitness ==
    /\ fn.op = "extractPathFromURL"
    /\ fn.in = <<"h", "t", "t", "p", "s", ":", "/", "/", "3", ".", "b", "a", "s", "e", "c", "a", "m", "p", "a", "p", "i", ".", "c", "o", "m", "/", "4", "2", "/", "b", "/", "2", ".", "j", "s", "o", "n", "?", "p", "a", "g", "e", "=", "4">>
    /\ fn.out = <<"/", "b", "/", "2", ".", "j", "s", "o", "n", "?", "p", "a", "g", "e", "=", "4">>

\* C28 as stated: a purely numeric first path segment is dropped whatever the
\* host, as for https://api.example.com/999999999/buckets/...; a non-numeric
\* first segment keeps the full path; an unparsable URL yields ""
AccountDroppedAnyHost ==
    (fn.op = "extractPathFromURL" /\ fn.sent.rest # <<>>) =>
        fn.out =
            IF fn.sent.start = <<":">> THEN <<>>
            ELSE IF fn.sent.start = <<>> THEN fn.out
            ELSE IF RejectedHost(fn.sent.host) THEN <<>>
            ELSE IF Numeric(fn.sent.first)
            THEN fn.sent.rest \o fn.sent.query
            ELSE <<"/">> \o fn.sent.first \o fn.sent.rest \o fn.sent.query

\* C29: the HTTP core classifies a response by its status: 401 is an
\* authentication error, 404 a not-found error, 429 a rate-limit error that is
\* not the generic API error, any other status from 400 on the generic API
\* error, and a status below 400 is no error of the request.
StatusClassified ==
    \A p \in Fetchers :
        (/\ op[p] \notin {"idle", "GetAll"}
         /\ pc[p] = "return"
         /\ ga[p].resp.kind = "http") =>
            CASE ga[p].resp.status = 401 -> ga[p].err = "AuthenticationError"
              [] ga[p].resp.status = 404 -> ga[p].err = "NotFoundError"
              [] ga[p].resp.status = 429 -> ga[p].err = "RateLimitError"
              [] ga[p].resp.status >= 400 -> ga[p].err = "APIError"
              [] OTHER -> ga[p].err \in {"nil", "failed to decode response"}

\* texts of rendered HTML that the validator does not accept and that
\* postProcessHTML leaves in place: the <input> of a task list, the title
\* attribute of a link
RejectedTexts ==
    {<<"<", "i", "n", "p", "u", "t">>, <<" ", "t", "i", "t", "l", "e", "=">>}

UnsupportedAt(tags) ==
    {k \in 1..Len(tags) : LowerOf(tags[k].name) \notin supportedTags}

\* the names, in lower case, of the attributes other than href that the <a>
\* tags carry
OtherAttrs(tags) ==
    UNION {{LowerOf(tags[k].attrs[j].name) : j \in 1..Len(tags[k].attrs)} :
              k \in {i \in 1..Len(tags) : LowerOf(tags[i].name) = <<"a">>}}
        \ {HrefName}

\* C31: ValidateBasecampHTML rejects every <a> tag that carries an attribute
\* other than href, wherever the attribute stands in the tag, with an error
\* naming such an attribute, and accepts <a> tags that carry only href (on
\* documents whose tags are all supported).
AnchorOnlyHref ==
    (fn.op = "ValidateBasecampHTML" /\ UnsupportedAt(fn.sent) = {}) =>
        IF OtherAttrs(fn.sent) = {} THEN fn.out = NoError
        ELSE /\ fn.out.kind = "unsupported attribute"
             /\ fn.out.name \in OtherAttrs(fn.sent)

\* C32: ValidateBasecampHTML returns an error naming the tag, in lower case,
\* for the first opening or closing tag whose name is outside the allow-list
\* whatever the case of its letters, and nil for the empty string and for a
\* document whose tags are all supported and whose <a> tags carry only href.
UnsupportedTagNamed ==
    fn.op = "ValidateBasecampHTML" =>
        /\ UnsupportedAt(fn.sent) # {} =>
              fn.out = [kind |-> "unsupported HTML tag",
                        name |-> LowerOf(fn.sent[MinOf(UnsupportedAt(fn.sent))].name)]
        /\ fn.in = <<>> => fn.out = NoError
        /\ (UnsupportedAt(fn.sent) = {} /\ OtherAttrs(fn.sent) = {}) =>
              fn.out = NoError

\* C32 witness: <DIV class="c"> is accepted and the closing tag </Script>
\* behind it is rejected as script
UnsupportedTagNamedWitness ==
    /\ fn.op = "ValidateBasecampHTML"
    /\ fn.in = <<"<", "D", "I", "V", " ", "c", "l", "a", "s", "s", "=", "\"", "c", "\"", ">", "x", "<", "/", "S", "c", "r", "i", "p", "t", ">", "x">>
    /\ fn.out = [kind |-> "unsupported HTML tag", name |-> <<"s", "c", "r", "i", "p", "t">>]

\* the trigger characters and substrings of the fast path
TriggerChars ==
    {"*", Backtick, "[", "]", "(", ")", "#", ">", "+", "<", "&", "@"}
TriggerWords == {<<"~", "~">>, <<"h", "t", "t", "p", ":", "/", "/">>, <<"h", "t", "t", "p", "s", ":", "/", "/">>, <<"m", "a", "i", "l", "t", "o", ":">>}
HasTrigger(s) ==
    \/ \E j \in 1..Len(s) : s[j] \in TriggerChars
    \/ \E w \in TriggerWords : \E j \in 1..Len(s) :
          j + Len(w) - 1 <= Len(s) /\ SubSeq(s, j, j + Len(w) - 1) = w

\* a leading - or + followed by white space, or leading digits and a dot
LeadingMarker(s) ==
    \/ Len(s) >= 2 /\ s[1] \in {"-", "+"} /\ s[2] \in {" ", "\t"}
    \/ \E n \in 1..(Len(s) - 1) :
          (\A j \in 1..n : s[j] \in Digits) /\ s[n + 1] = "."

SingleLine(s) == \A j \in 1..Len(s) : s[j] # "\n"

\* C33: MarkdownToRichText returns the trimmed input unchanged, with a nil
\* error and without rendering it, when the trimmed input is empty or is a
\* single line with no trigger character or substring and no leading list
\* marker; a single line with a trigger or a leading list marker is never
\* returned on this fast path.
PlainTextFastPath ==
    fn.op = "MarkdownToRichText" =>
        /\ (/\ SingleLine(TrimSpace(fn.in))
            /\ ~HasTrigger(TrimSpace(fn.in))
            /\ ~LeadingMarker(TrimSpace(fn.in))) =>
               /\ fn.out = TrimSpace(fn.in)
               /\ fn.err = "nil"
               /\ fn.html = NotRendered
        /\ (/\ SingleLine(TrimSpace(fn.in))
            /\ HasTrigger(TrimSpace(fn.in)) \/ LeadingMarker(TrimSpace(fn.in))) =>
               fn.html # NotRendered

\* C33 witness: " Buy milk \n" is returned as "Buy milk", not rendered
PlainTextFastPathWitness ==
    /\ fn.op = "MarkdownToRichText"
    /\ fn.in = <<" ", "B", "u", "y", " ", "m", "i", "l", "k", " ", "\n">>
    /\ fn.out = <<"B", "u", "y", " ", "m", "i", "l", "k">>
    /\ fn.err = "nil"
    /\ fn.html = NotRendered

\* C34: Reset sets tokens to maxTokens and lastRefill to the current time
\* whatever the state before; of the TryAcquire calls that follow it within
\* less than one refill interval, the first maxTokens return true and the
\* next one returns false.
ResetRestoresPool ==
    /\ [][ResetBody(1) => tokens' = maxTokens /\ lastRefill' = now']_vars
    /\ []((hasReset /\ op[1] = "TryAcquire" /\ pc[1] = "t_ret") =>
             (loc[1].ret <=> calls - (PreCalls + 1) <= maxTokens))

\* C34 witness: two tokens drained at the creation time, Reset, two
\* TryAcquire calls that took a token and the third one returning false
ResetRestoresPoolWitness ==
    /\ hasReset
    /\ maxTokens = 2
    /\ now = 0
    /\ granted = PreCalls + maxTokens
    /\ calls = PreCalls + 1 + maxTokens + 1
    /\ pc[1] = "t_ret"
    /\ ~loc[1].ret
    /\ tokens = 0

\* the procs whose call of GetRateLimiter has returned
Returned(p) == "instance" \in DOMAIN loc[p]

\* C35: the process-wide limiter is created exactly once: however the calls
\* of GetRateLimiter interleave, NewRateLimiter runs at most once, and every
\* call that has returned has returned that one instance, which is the pool
\* of 50 tokens every PaginatedRequest holds.
LimiterCreatedOnce ==
    /\ fn.created <= 1
    /\ \A p \in Procs :
          Returned(p) =>
              /\ fn.created = 1
              /\ loc[p].instance = 1
              /\ fn.global = 1
              /\ maxTokens = GlobalTokens

\* C35 witness: two first calls raced: proc 1 has created the limiter and
\* returned it, and proc 2, which passed the first load of done before it was
\* set, now holds the mutex of once and finds done set
LimiterCreatedOnceWitness ==
    /\ Returned(1)
    /\ loc[1].instance = 1
    /\ pc[2] = "o_slow"
    /\ fn.m = 2
    /\ fn.done
    /\ fn.created = 1

\* C36: a refill advances lastRefill by the whole refill intervals elapsed,
\* tokensToAdd * refillRate, never to the current time, also when the pool
\* is capped at maxTokens; right after a refill 0 <= now - lastRefill <
\* refillRate; and lastRefill never moves backwards nor past the current time.
RefillKeepsFraction ==
    /\ [][\A p \in Procs :
            (WaitRefill(p) \/ TryRefill(p)) =>
                /\ lastRefill' = lastRefill
                       + ((now - lastRefill) \div refillRate) * refillRate
                /\ 0 <= now' - lastRefill'
                /\ now' - lastRefill' < refillRate]_vars
    /\ [][lastRefill' >= lastRefill]_vars
    /\ [](lastRefill <= now)

\* C36 witness: a TryAcquire whose refill was capped at maxTokens (the pool
\* held a token and more than one interval had passed) and left lastRefill
\* behind the current time
RefillKeepsFractionWitness ==
    \E p \in Procs :
        /\ pc[p] = "t_dec"
        /\ loc[p].preTokens >= 1
        /\ lastRefill > loc[p].preLast
        /\ loc[p].preTokens + (lastRefill - loc[p].preLast) \div refillRate
               > maxTokens
        /\ tokens = maxTokens
        /\ now > lastRefill

\* C37: a Wait caller that finds no token does not hold the mutex while it
\* sleeps, so that a sleeper blocks nobody; after the sleep it locks the
\* mutex again and runs refill and the test tokens > 0 under the lock: it
\* decrements only a positive token count, and when the refilled token has
\* been taken by another caller it goes to sleep again.
WaitRechecksAfterSleep ==
    /\ [](\A p \in Procs : pc[p] = "w_sleep" => mu # p)
    /\ [][\A p \in Procs :
            pc[p] = "w_sleep" => pc'[p] \in {"w_sleep", "w_lock"}]_vars
    /\ [][\A p \in Procs :
            (WaitRefill(p) \/ WaitDec(p)) => mu = p]_vars
    /\ [][\A p \in Procs : WaitDec(p) => tokens > 0]_vars
    /\ [][\A p \in Procs :
            (WaitRefill(p) /\ tokens' = 0) => pc'[p] = "w_calc"]_vars

\* C37 witness: a waiter has slept until its wake-up time, locked the mutex
\* and run refill again, and finds no token because another caller took the
\* refilled one (more tokens were granted than the pool held); another
\* caller sleeps meanwhile without the mutex
WaitRechecksAfterSleepWitness ==
    \E p \in Procs : \E q \in Procs \ {p} :
        /\ pc[p] = "w_calc"
        /\ loc[p].slept
        /\ now >= wake[p]
        /\ mu = p
        /\ tokens = 0
        /\ granted > maxTokens
        /\ ~hasReset
        /\ pc[q] = "w_sleep"

\* C38: every response body a call obtains is closed exactly once before the
\* call requests the next page or returns, on the decode-error path as on
\* the decode-success path, and for a status from 400 on by the request
\* core: a body is open only while the call holds the response it has just
\* received.
BodiesClosed ==
    \A p \in Fetchers :
        ga[p].opened - ga[p].closed =
            IF pc[p] \in {"g_response", "c_response"} /\ ga[p].resp.kind = "http"
            THEN 1 ELSE 0

\* C38 witness: GetAll returns the decode error of its second page with both
\* bodies closed
BodiesClosedWitness ==
    \E p \in Fetchers :
        /\ op[p] = "GetAll"
        /\ pc[p] = "return"
        /\ ga[p].err = "failed to decode paginated results"
        /\ Len(ga[p].pages) = 1
        /\ ga[p].opened = 2
        /\ ga[p].closed = 2

\* the page GetAll has just received is empty
PageEmpty(p) == ga[p].resp.items = <<>>

\* the page GetAll has just received is the one at which maxPages is reached
PageMaxed(p) ==
    ga[p].maxPages > 0 /\ ga[p].pageCount + 1 >= ga[p].maxPages

\* C39: after each page GetAll evaluates its stop conditions in the order
\* empty page, maxPages reached, pageCheck, next link: pageCheck is invoked,
\* once, exactly for a page that is not empty and not the one at which
\* maxPages is reached; when a stop condition fires GetAll returns nil
\* without parsing the Link header, whatever the header holds; otherwise the
\* next path is the one the Link header gives.
StopConditionsInOrder ==
    [][\A p \in Fetchers :
          (GaDecoded(p) /\ ga[p].resp.decodes) =>
              /\ Len(ga'[p].checks) =
                     Len(ga[p].checks)
                     + (IF ~PageEmpty(p) /\ ~PageMaxed(p) /\ ga[p].check # "nil"
                        THEN 1 ELSE 0)
              /\ Len(ga'[p].checks) > Len(ga[p].checks) =>
                     ga'[p].checks[Len(ga'[p].checks)]
                         = pageCheck(ga[p].check, ga[p].resp.items)
              /\ IF \/ PageEmpty(p)
                    \/ PageMaxed(p)
                    \/ /\ ga[p].check # "nil"
                       /\ ~pageCheck(ga[p].check, ga[p].resp.items)
                 THEN /\ pc'[p] = "return"
                      /\ ga'[p].err = "nil"
                      /\ ga'[p].path = ga[p].path
                 ELSE /\ pc'[p] \in {"g_loop", "g_delay", "g_hang"}
                      /\ ga'[p].path =
                             IF parseNextLinkURL(ga[p].resp.link).url = <<>>
                             THEN <<>>
                             ELSE extractPathFromURL(
                                      parseNextLinkURL(ga[p].resp.link).url)]_vars

\* C39 witness: with maxPages 2 and a pageCheck set, GetAll has returned nil
\* after two pages with items, the second one carrying a next link: pageCheck
\* was called for the first page only and the link was not followed
StopConditionsInOrderWitness ==
    \E p \in Fetchers :
        /\ op[p] = "GetAll"
        /\ pc[p] = "return"
        /\ ga[p].err = "nil"
        /\ ga[p].maxPages = 2
        /\ ga[p].check = "lastBelow"
        /\ Len(ga[p].pages) = 2
        /\ ga[p].pages[2] # <<>>
        /\ ga[p].checks = <<TRUE>>
        /\ ga[p].resp.link = NextLink

\* what listRecordingsByType returns for a type of which the server holds
\* the list of pages served, from its n-th page on: the pages up to the
\* first one that is empty, that stops the page check of since (0: none),
\* or that is the last
RECURSIVE FetchedFrom(_, _, _)
FetchedFrom(served, since, n) ==
    IF n > Len(served) THEN <<>>
    ELSE IF \/ served[n] = <<>>
            \/ since # 0 /\ served[n][Len(served[n])] < since
    THEN served[n]
    ELSE served[n] \o FetchedFrom(served, since, n + 1)

\* the recordings of the types from t on, each type's recordings being what
\* listRecordingsByType returns for it, in the order of the requested types
RECURSIVE InTypeOrder(_, _, _)
InTypeOrder(served, since, t) ==
    IF t > NumTypes THEN <<>>
    ELSE Recordings(t, FetchedFrom(served[t], since, 1))
             \o InTypeOrder(served, since, t + 1)

\* the recordings of a sequence that are updated at stamp
UpdatedAtStamp(recordings, stamp) ==
    LET Q(r) == r.UpdatedAt = stamp IN SelectSeq(recordings, Q)

\* the values of UpdatedAt in a sequence of recordings
StampsOf(recordings) ==
    {recordings[i].UpdatedAt : i \in 1..Len(recordings)}

\* the recordings the call fetches, in the order of the requested types, that
\* pass the filter of its options
QualifyingInTypeOrder ==
    filterRecordings(InTypeOrder(lr.served, lr.opts.Since, 1), lr.opts)

\* C40: what ListRecordings returns does not depend on the order in which
\* the fetches of the types complete.  A goroutine writes only the result
\* slot of its own type, once, when it returns; ListRecordings returns only
\* when every goroutine has returned; the recordings it returns without an
\* error are, whatever the interleaving, the recordings the server holds for
\* the types up to each type's last fetched page, in descending order of
\* UpdatedAt, and those with equal UpdatedAt in the order of the requested
\* types (and within a type in the order the server holds them); no limit
\* is set.
ResultOrderIndependent ==
    /\ [](lr.pc = "done" =>
            /\ lr.finished = Types
            /\ \A t \in Types : op[t] = "idle"
            /\ (lr.retErr = NoErr /\ lr.opts.Limit = 0) =>
                  /\ \A i, j \in 1..Len(lr.ret) :
                        i < j => lr.ret[i].UpdatedAt >= lr.ret[j].UpdatedAt
                  /\ \A stamp \in StampsOf(lr.ret) \cup StampsOf(QualifyingInTypeOrder) :
                        UpdatedAtStamp(lr.ret, stamp)
                            = UpdatedAtStamp(QualifyingInTypeOrder, stamp))
    /\ [][lr.pc = "wait" =>
            \A t \in Types :
                lr'.results[t] # lr.results[t] =>
                    /\ pc[t] = "return"
                    /\ t \notin lr.finished
                    /\ t \in lr'.finished
                    /\ lr'.results[t] = ga[t].result
                    /\ \A u \in Types \ {t} :
                           lr'.results[u] = lr.results[u]]_vars

\* C40 witness: ListRecordings has returned two recordings of each type; the
\* two updated at 3 and the two updated at 2 are each in the order of the
\* requested types
ResultOrderIndependentWitness ==
    /\ lr.pc = "done"
    /\ lr.retErr = NoErr
    /\ lr.served = <<(<<(<<3, 2>>)>>), <<(<<3, 2>>)>>>>
    /\ [i \in 1..Len(lr.ret) |-> <<lr.ret[i].UpdatedAt, lr.ret[i].Type>>]
           = <<(<<3, 1>>), <<3, 2>>, <<2, 1>>, <<2, 2>>>>
====
